---- MODULE Spec2Model ----
(***************************************************************************)
(* Manual reordering, order reconciliation and grouping of the card        *)
(* binder (src/src/App.jsx).  The state is the state of the App component  *)
(* (metas, orderMap, dragging, dropTarget, dropLine, the mode switches,    *)
(* two of the filter criteria, customCollections) and the four stores.     *)
(* Card ids are 1..MaxCards; 0 stands for the empty id "" and, in a card   *)
(* record, for a property that is absent (undefined).                      *)
(***************************************************************************)
EXTENDS Integers, Sequences, FiniteSets, TLC

VARIABLES
    metas,              \* useLocalMeta: in-memory card list (array of CardMeta)
    nextId,             \* number of ids handed out so far (uuidv4 never repeats)
    clock,              \* Date.now()
    orderMap,           \* useState({}): group key -> array of ids
    orderStore,         \* orderStore item "map"
    dragging,           \* useState({active, id, group})
    dropTarget,         \* useState({id, pos})
    dropLine,           \* useState({groupKey, visible, ...})
    reorderMode,        \* useState(false)
    sortMode,           \* useState("none")
    favoritesOnly,      \* useState(false)
    activeCollection,   \* useState("")
    customCollections,  \* useState([])
    pointerAt,          \* what the last handlePointerMove of the gesture found
    last,               \* the handler that ran last, with its arguments
    res,                \* inputs and result of the last function application
    metaStore,          \* metaStore: card id -> CardMeta
    fileStore,          \* fileStore: card id -> bytes
    customStore,        \* customCollectionStore item "list"
    orderWrites,        \* orderStore.setItem("map", ..) calls not yet resolved
    importing,          \* importFiles: the batch in progress, lastError
    deleting,           \* deleteCustomCollection: the call in progress
    metaQueue           \* updateMeta calls waiting on their next metaStore request

vars == <<metas, nextId, clock, orderMap, orderStore, dragging, dropTarget,
          dropLine, reorderMode, sortMode, favoritesOnly, activeCollection,
          customCollections, pointerAt, last, res, metaStore, fileStore,
          customStore, orderWrites, importing, deleting, metaQueue>>

-----------------------------------------------------------------------------
(* Bounds *)

MaxCards == 3
MaxDragCards == 2
MaxOrderLen == 3
MaxStamp == 2

-----------------------------------------------------------------------------
(* Strings *)

NONE == "(None)"

DEFAULT_COLLECTIONS ==
    <<"Dayseal", "Everflame Mandate", "First Light - Series I",
      "Mooncrown Eclipse - Series I", "Starseal Registry">>

\* String.prototype.toLowerCase on the strings the model uses.
toLowerCase(s) ==
    CASE s = "Dayseal" -> "dayseal"
      [] s = "Everflame Mandate" -> "everflame mandate"
      [] s = "First Light - Series I" -> "first light - series i"
      [] s = "Mooncrown Eclipse - Series I" -> "mooncrown eclipse - series i"
      [] s = "Starseal Registry" -> "starseal registry"
      [] s = "(None)" -> "(none)"
      [] s = "Zeta" -> "zeta"
      [] s = "Alpha" -> "alpha"
      [] OTHER -> s

\* Position of a string in the order String.prototype.localeCompare gives
\* (lower case before upper case when the letters are equal).
localeRank(s) ==
    CASE s = "(none)" -> 0
      [] s = "(None)" -> 1
      [] s = "alpha" -> 2
      [] s = "Alpha" -> 3
      [] s = "dayseal" -> 4
      [] s = "Dayseal" -> 5
      [] s = "everflame mandate" -> 6
      [] s = "Everflame Mandate" -> 7
      [] s = "first light - series i" -> 8
      [] s = "First Light - Series I" -> 9
      [] s = "mooncrown eclipse - series i" -> 10
      [] s = "Mooncrown Eclipse - Series I" -> 11
      [] s = "starseal registry" -> 12
      [] s = "Starseal Registry" -> 13
      [] s = "zeta" -> 14
      [] s = "Zeta" -> 15
      [] OTHER -> 16

localeCompare(a, b) == localeRank(a) - localeRank(b)

-----------------------------------------------------------------------------
(* Array helpers *)

Range(s) == {s[i] : i \in 1..Len(s)}

\* Array.prototype.indexOf, 1-based; 0 when absent (-1 in the source).
indexOf(s, x) ==
    IF \E i \in 1..Len(s) : s[i] = x
    THEN CHOOSE i \in 1..Len(s) : s[i] = x /\ \A j \in 1..(i - 1) : s[j] # x
    ELSE 0

\* Array.prototype.splice(at, 0, x) with `at` counted from 0.
spliceIn(s, at, x) == SubSeq(s, 1, at) \o <<x>> \o SubSeq(s, at + 1, Len(s))

\* Insert m into the createdAt-sorted array s after every element that does
\* not compare greater (Array.prototype.sort is stable).
RECURSIVE insertByCreatedAt_passEquals(_, _)
insertByCreatedAt_passEquals(s, m) ==
    IF s = <<>> THEN <<m>>
    ELSE IF s[Len(s)].createdAt - m.createdAt >= 0
         THEN Append(insertByCreatedAt_passEquals(SubSeq(s, 1, Len(s) - 1), m),
                     s[Len(s)])
         ELSE Append(s, m)

RECURSIVE insertByCreatedAt(_, _)
insertByCreatedAt(s, m) ==
    IF s = <<>> THEN <<m>>
    ELSE IF s[Len(s)].createdAt - m.createdAt > 0
         THEN Append(insertByCreatedAt(SubSeq(s, 1, Len(s) - 1), m), s[Len(s)])
         ELSE Append(s, m)

RECURSIVE sortByCreatedAt(_)
sortByCreatedAt(s) ==
    IF s = <<>> THEN <<>>
    ELSE insertByCreatedAt(sortByCreatedAt(SubSeq(s, 1, Len(s) - 1)), s[Len(s)])

RECURSIVE insertByLocale(_, _)
insertByLocale(s, x) ==
    IF s = <<>> THEN <<x>>
    ELSE IF localeCompare(s[Len(s)], x) > 0
         THEN Append(insertByLocale(SubSeq(s, 1, Len(s) - 1), x), s[Len(s)])
         ELSE Append(s, x)

RECURSIVE sortByLocale(_)
sortByLocale(s) ==
    IF s = <<>> THEN <<>>
    ELSE insertByLocale(sortByLocale(SubSeq(s, 1, Len(s) - 1)), s[Len(s)])

idsOf(items) == [i \in 1..Len(items) |-> items[i].id]

-----------------------------------------------------------------------------
(* Order reconciliation *)

\* m.collection || "(None)"
groupOf(m) == IF m.collection = "" THEN NONE ELSE m.collection

keyForCollection(c) == toLowerCase(IF c = "" THEN NONE ELSE c)

\* orderMap[key] || []
listAt(om, key) == IF key \in DOMAIN om THEN om[key] ELSE <<>>

\* walkOrder without byId.delete(id): an id pushed once stays in the Map.
RECURSIVE walkOrder_keepSeen(_, _, _)
walkOrder_keepSeen(idsOrder, byId, out) ==
    IF idsOrder = <<>> THEN <<out, byId>>
    ELSE LET id == Head(idsOrder)
             hit(m) == m.id = id
         IN IF \E i \in 1..Len(byId) : byId[i].id = id
            THEN walkOrder_keepSeen(Tail(idsOrder), byId,
                                    out \o SelectSeq(byId, hit))
            ELSE walkOrder_keepSeen(Tail(idsOrder), byId, out)

\* The forEach of orderItemsInGroup: `byId` is the array of items still in the
\* Map (a Map keeps insertion order), `out` the items pushed so far.
RECURSIVE walkOrder(_, _, _)
walkOrder(idsOrder, byId, out) ==
    IF idsOrder = <<>> THEN <<out, byId>>
    ELSE LET id == Head(idsOrder)
             hit(m) == m.id = id
             miss(m) == m.id # id
         IN IF \E i \in 1..Len(byId) : byId[i].id = id
            THEN walkOrder(Tail(idsOrder), SelectSeq(byId, miss),
                           out \o SelectSeq(byId, hit))
            ELSE walkOrder(Tail(idsOrder), byId, out)

\* orderItemsInGroup with the listed members pushed in reverse.
orderItemsInGroup_listedReversed(om, groupName, items) ==
    LET key == keyForCollection(groupName)
        idsOrder == listAt(om, key)
        w == walkOrder(idsOrder, items, <<>>)
    IN [i \in 1..Len(w[1]) |-> w[1][Len(w[1]) + 1 - i]] \o sortByCreatedAt(w[2])

orderItemsInGroup(om, groupName, items) ==
    LET key == keyForCollection(groupName)
        idsOrder == listAt(om, key)
        w == walkOrder(idsOrder, items, <<>>)
    IN w[1] \o sortByCreatedAt(w[2])

groupIdsOf(ms, groupName) ==
    LET inGroup(m) == groupOf(m) = groupName
    IN idsOf(SelectSeq(ms, inGroup))

\* moveIds without the last filter to the members of the group.
moveIds_noLastFilter(om, ms, groupName, draggedId, targetId, placeBefore) ==
    LET key == keyForCollection(groupName)
        currentIds == listAt(om, key)
        groupIds == groupIdsOf(ms, groupName)
        member(id) == \E i \in 1..Len(groupIds) : groupIds[i] = id
        notDragged(id) == id # draggedId
        ids0 == SelectSeq(currentIds, member)
        ids1 == IF Len(ids0) = 0 THEN groupIds ELSE ids0
        ids2 == SelectSeq(ids1, notDragged)
        tIdx == indexOf(ids2, targetId)
        insertAt == IF tIdx = 0 THEN Len(ids2)
                    ELSE IF placeBefore THEN tIdx - 1 ELSE tIdx
    IN spliceIn(ids2, insertAt, draggedId)

\* moveIds with the target's index taken before the dragged id is removed.
moveIds_targetIndexFirst(om, ms, groupName, draggedId, targetId, placeBefore) ==
    LET key == keyForCollection(groupName)
        currentIds == listAt(om, key)
        groupIds == groupIdsOf(ms, groupName)
        member(id) == \E i \in 1..Len(groupIds) : groupIds[i] = id
        notDragged(id) == id # draggedId
        ids0 == SelectSeq(currentIds, member)
        ids1 == IF Len(ids0) = 0 THEN groupIds ELSE ids0
        tIdx == indexOf(ids1, targetId)
        ids2 == SelectSeq(ids1, notDragged)
        at == IF tIdx = 0 THEN Len(ids2)
              ELSE IF placeBefore THEN tIdx - 1 ELSE tIdx
        insertAt == IF at > Len(ids2) THEN Len(ids2) ELSE at
        ids3 == spliceIn(ids2, insertAt, draggedId)
    IN SelectSeq(ids3, member)

\* The array moveWithinGroup hands to persistOrder under `key`.
moveIds(om, ms, groupName, draggedId, targetId, placeBefore) ==
    LET key == keyForCollection(groupName)
        currentIds == listAt(om, key)
        groupIds == groupIdsOf(ms, groupName)
        member(id) == \E i \in 1..Len(groupIds) : groupIds[i] = id
        notDragged(id) == id # draggedId
        ids0 == SelectSeq(currentIds, member)
        ids1 == IF Len(ids0) = 0 THEN groupIds ELSE ids0
        ids2 == SelectSeq(ids1, notDragged)
        tIdx == indexOf(ids2, targetId)
        insertAt == IF tIdx = 0 THEN Len(ids2)
                    ELSE IF placeBefore THEN tIdx - 1 ELSE tIdx
        ids3 == spliceIn(ids2, insertAt, draggedId)
    IN SelectSeq(ids3, member)

\* { ...orderMap, [key]: ids }
moveWithinGroup(om, ms, groupName, draggedId, targetId, placeBefore) ==
    LET key == keyForCollection(groupName)
        ids == moveIds(om, ms, groupName, draggedId, targetId, placeBefore)
    IN [k \in DOMAIN om \cup {key} |-> IF k = key THEN ids ELSE om[k]]

-----------------------------------------------------------------------------
(* Card list *)

hasId(ms, id) == \E i \in 1..Len(ms) : ms[i].id = id

metaOf(ms, id) == ms[CHOOSE i \in 1..Len(ms) : ms[i].id = id]

\* useLocalMeta.upsert: replace the entry with the same id, else append.
upsert(ms, meta) ==
    IF hasId(ms, meta.id)
    THEN [i \in 1..Len(ms) |-> IF ms[i].id = meta.id THEN meta ELSE ms[i]]
    ELSE Append(ms, meta)

\* remove with the filter inverted: only the card with the id is kept.
remove_inverted(ms, id) ==
    LET keep(m) == m.id = id
    IN SelectSeq(ms, keep)

\* useLocalMeta.remove
remove(ms, id) ==
    LET keep(m) == m.id # id
    IN SelectSeq(ms, keep)

EmptyStore == [k \in {} |-> 0]

\* localforage setItem / removeItem on a store (a function from keys).
setItem(store, key, value) ==
    [k \in DOMAIN store \cup {key} |-> IF k = key THEN value ELSE store[k]]

removeItem(store, key) == [k \in DOMAIN store \ {key} |-> store[k]]

\* { ...null }: a card record none of whose properties is present.
noMeta ==
    [id |-> 0, collection |-> "", createdAt |-> 0, updatedAt |-> 0,
     favorite |-> FALSE]

\* await metaStore.getItem(id): null when the key is not stored.
getMeta(store, id) == IF id \in DOMAIN store THEN store[id] ELSE noMeta

\* `updated` of updateMeta: { ...existing, ...patch, updatedAt: Date.now() }.
updatedMeta(store, id, patch, now) ==
    LET existing == getMeta(store, id)
    IN [f \in DOMAIN existing |->
           IF f = "updatedAt" THEN now
           ELSE IF f \in DOMAIN patch THEN patch[f] ELSE existing[f]]

\* The card store after updateMeta: metaStore.setItem(id, updated), then the
\* setItem(meta.id, meta) of upsert.
storeAfterUpdate(store, id, patch, now) ==
    LET updated == updatedMeta(store, id, patch, now)
    IN setItem(setItem(store, id, updated), updated.id, updated)

\* metas after updateMeta: `updated` goes through the setMetas of upsert.
updateMeta(ms, store, id, patch, now) ==
    upsert(ms, updatedMeta(store, id, patch, now))

-----------------------------------------------------------------------------
(* Collections *)

isDefaultCI(c) ==
    \E i \in 1..Len(DEFAULT_COLLECTIONS) :
        toLowerCase(DEFAULT_COLLECTIONS[i]) = toLowerCase(c)

inListCI(list, c) == \E i \in 1..Len(list) : toLowerCase(list[i]) = toLowerCase(c)

\* Array.from(new Set(s)): first occurrences, in order.
RECURSIVE dedup(_)
dedup(s) ==
    IF s = <<>> THEN <<>>
    ELSE LET front == dedup(SubSeq(s, 1, Len(s) - 1))
         IN IF s[Len(s)] \in Range(front) THEN front ELSE Append(front, s[Len(s)])

\* addCustomCollection(name), name already trimmed.
addCustomCollection(custom, n) ==
    IF n = "" THEN custom
    ELSE IF isDefaultCI(n) \/ inListCI(custom, n) THEN custom
    ELSE sortByLocale(Append(custom, n))

\* The effect on [metas]: collections found on cards join the stored list.
migrateCollections(stored, ms) ==
    LET cols == [i \in 1..Len(ms) |-> ms[i].collection]
        extra(c) == c # "" /\ ~isDefaultCI(c) /\ ~inListCI(stored, c)
        extras == dedup(SelectSeq(cols, extra))
    IN sortByLocale(stored \o extras)

-----------------------------------------------------------------------------
(* Filtering and grouping *)

\* Text that is searched (query, name, tags) is a sequence of characters.
lowerChar(c) ==
    CASE c = "A" -> "a"
      [] c = "B" -> "b"
      [] c = "F" -> "f"
      [] c = "O" -> "o"
      [] c = "R" -> "r"
      [] OTHER -> c

toLowerText(t) == [i \in 1..Len(t) |-> lowerChar(t[i])]

\* String.prototype.trim
RECURSIVE trim(_)
trim(t) ==
    IF t = <<>> THEN t
    ELSE IF Head(t) = " " THEN trim(Tail(t))
    ELSE IF t[Len(t)] = " " THEN trim(SubSeq(t, 1, Len(t) - 1))
    ELSE t

\* String.prototype.includes
includes(t, q) ==
    \E i \in 0..(Len(t) - Len(q)) : SubSeq(t, i + 1, i + Len(q)) = q

\* matches with the collection compared after toLowerCase.
matches_collectionCI(m, query, activeTag, actCol, activeTier, favOnly) ==
    LET q == toLowerText(trim(query))
        okQ == \/ q = <<>>
               \/ includes(toLowerText(m.name), q)
               \/ \E i \in 1..Len(m.tags) : includes(toLowerText(m.tags[i]), q)
        okTag == activeTag = <<>> \/ \E i \in 1..Len(m.tags) : m.tags[i] = activeTag
        okCol == actCol = "" \/ toLowerCase(m.collection) = toLowerCase(actCol)
        okTier == activeTier = "" \/ m.tier = activeTier
        okFav == ~favOnly \/ m.favorite
    IN okQ /\ okTag /\ okCol /\ okTier /\ okFav

\* The callback of metas.filter in `filtered`.  A criterion that is empty is
\* not compared with the card (the || of the source).  favorite is a boolean
\* here (the source also accepts "true" and 1).
matches(m, query, activeTag, actCol, activeTier, favOnly) ==
    LET q == toLowerText(trim(query))
        okQ == \/ q = <<>>
               \/ includes(toLowerText(m.name), q)
               \/ \E i \in 1..Len(m.tags) : includes(toLowerText(m.tags[i]), q)
        okTag == activeTag = <<>> \/ \E i \in 1..Len(m.tags) : m.tags[i] = activeTag
        okCol == actCol = "" \/ m.collection = actCol
        okTier == activeTier = "" \/ m.tier = activeTier
        okFav == ~favOnly \/ m.favorite
    IN okQ /\ okTag /\ okCol /\ okTier /\ okFav

\* `filtered` with all five criteria.
filteredBy(ms, query, activeTag, actCol, activeTier, favOnly) ==
    LET ok(m) == matches(m, query, activeTag, actCol, activeTier, favOnly)
    IN SelectSeq(ms, ok)

\* `filtered` while query, activeTag and activeTier are empty, as they are in
\* every state of the application model below.
filtered(ms, actCol, favOnly) == filteredBy(ms, <<>>, <<>>, actCol, "", favOnly)

\* groupedByCollection without the sort of the custom keys: they stay in the
\* order in which the Map met them.
groupedByCollection_customsUnsorted(filt) ==
    LET mapKeys == dedup([i \in 1..Len(filt) |-> groupOf(filt[i])])
        has(k) == k \in Range(mapKeys)
        isCustom(k) == k # NONE /\ ~isDefaultCI(k)
        customs == SelectSeq(mapKeys, isCustom)
        keys == SelectSeq(DEFAULT_COLLECTIONS, has) \o customs
                    \o (IF has(NONE) THEN <<NONE>> ELSE <<>>)
    IN [i \in 1..Len(keys) |->
           LET inGroup(m) == groupOf(m) = keys[i]
           IN [name |-> keys[i], items |-> SelectSeq(filt, inGroup)]]

\* [name, items] pairs in display order.
groupedByCollection(filt) ==
    LET mapKeys == dedup([i \in 1..Len(filt) |-> groupOf(filt[i])])
        has(k) == k \in Range(mapKeys)
        isCustom(k) == k # NONE /\ ~isDefaultCI(k)
        customs == sortByLocale(SelectSeq(mapKeys, isCustom))
        keys == SelectSeq(DEFAULT_COLLECTIONS, has) \o customs
                    \o (IF has(NONE) THEN <<NONE>> ELSE <<>>)
    IN [i \in 1..Len(keys) |->
           LET inGroup(m) == groupOf(m) = keys[i]
           IN [name |-> keys[i], items |-> SelectSeq(filt, inGroup)]]

Filtered == filtered(metas, activeCollection, favoritesOnly)

Grouped == groupedByCollection(Filtered)

\* The render of App throws once metas holds a record without tags (allTags
\* calls m.tags.forEach): such a record is one updateMeta built from a key
\* the card store did not hold; it has no id either.  Nothing is on screen
\* from then on.
crashed == \E i \in 1..Len(metas) : metas[i].id = 0

\* Ids of the cards that have an element on screen: the flat grid shows the
\* filtered list, the folder view the members of the listed groups.
renderedIds ==
    IF crashed THEN {}
    ELSE IF sortMode # "none" THEN Range(idsOf(Filtered))
    ELSE LET groups == Grouped
         IN UNION {Range(idsOf(groups[i].items)) : i \in 1..Len(groups)}

\* The array renderCardFactory receives for the section that shows card id.
groupOrderedItems(id) ==
    LET groups == Grouped
        i == CHOOSE j \in 1..Len(groups) :
                 id \in Range(idsOf(groups[j].items))
    IN orderItemsInGroup(orderMap, groups[i].name, groups[i].items)

-----------------------------------------------------------------------------
(* Reorder controller: the handlers as functions of the state they read *)

EmptyMap == [k \in {} |-> <<>>]

idleDragging == [active |-> FALSE, id |-> 0, group |-> ""]
noDropTarget == [id |-> 0, pos |-> "null"]
noDropLine == [groupKey |-> "", visible |-> FALSE]

\* canStartDrag without the check of the pointer button.
canStartDrag_anyButton(reorder, sort, button) ==
    reorder /\ sort = "none"

\* The guard of startPointerDrag.
canStartDrag(reorder, sort, button) ==
    /\ reorder /\ sort = "none"
    /\ button = 0

\* What handlePointerMove finds under the pointer: `id` is data-card-id (0 when
\* no card element is hit), `group` is data-card-group, `half` the side of the
\* card's midpoint the pointer is on, `grid` the data-grid-key of the
\* enclosing grid ("" when closest("[data-grid-key]") finds none).
noElement == [id |-> 0, group |-> "", half |-> "", grid |-> ""]

elementAt(id, half) ==
    IF id = 0 THEN noElement
    ELSE [id |-> id, group |-> groupOf(metaOf(metas, id)), half |-> half,
          grid |-> IF sortMode = "none"
                   THEN keyForCollection(groupOf(metaOf(metas, id)))
                   ELSE ""]

\* pointerMoveTarget without the comparison of the groups.
pointerMoveTarget_anyGroup(el, drg) ==
    IF el.id = 0 THEN noDropTarget
    ELSE [id |-> el.id, pos |-> el.half]

\* setDropTarget of handlePointerMove.
pointerMoveTarget(el, drg) ==
    IF el.id = 0 THEN noDropTarget
    ELSE IF el.group # drg.group THEN noDropTarget
    ELSE [id |-> el.id, pos |-> el.half]

\* setDropLine of handlePointerMove.
pointerMoveLine(el, drg) ==
    IF el.id = 0 THEN noDropLine
    ELSE IF el.group # drg.group THEN noDropLine
    ELSE IF el.grid = "" THEN noDropLine
    ELSE [groupKey |-> el.grid, visible |-> TRUE]

\* canCommit without the check that the target is not the dragged card.
canCommit_allowSelf(drg, dt) ==
    /\ drg.active
    /\ dt.id # 0 /\ dt.pos # "null"

\* The condition under which handlePointerUp calls moveWithinGroup.
canCommit(drg, dt) ==
    /\ drg.active
    /\ dt.id # 0 /\ dt.pos # "null"
    /\ dt.id # drg.id

\* The order map handlePointerUp leaves behind.
pointerUpOrder(om, ms, drg, dt) ==
    IF canCommit(drg, dt)
    THEN moveWithinGroup(om, ms, drg.group, drg.id, dt.id, dt.pos = "before")
    ELSE om

\* The neighbour handleCardKeyDown picks in groupItemsOrdered (0: none).
keyNeighbor(ordered, id, key) ==
    LET ids == idsOf(ordered)
        idx == indexOf(ids, id)
    IN IF idx = 0 THEN 0
       ELSE IF key = "ArrowUp" THEN ids[IF idx - 1 < 1 THEN 1 ELSE idx - 1]
       ELSE IF key = "ArrowDown"
            THEN ids[IF idx + 1 > Len(ids) THEN Len(ids) ELSE idx + 1]
       ELSE 0

\* The order map handleCardKeyDown leaves behind.
keyDownOrder(om, ms, reorder, sort, m, ordered, key, ctrl) ==
    LET nb == keyNeighbor(ordered, m.id, key)
    IN IF ~(reorder /\ sort = "none") THEN om
       ELSE IF ~ctrl THEN om
       ELSE IF nb = 0 \/ nb = m.id THEN om
       ELSE moveWithinGroup(om, ms, groupOf(m), m.id, nb, key = "ArrowUp")

-----------------------------------------------------------------------------
(* Actions *)

\* `last` names the handler of the step that led to the state.  For the
\* handlers that can write the order map it also keeps what they read:
\*   id, target   the dragged (focused) card and the target handed to
\*                moveWithinGroup (target 0: moveWithinGroup was not called);
\*                for startPointerDrag, target is the pointer button
\*   flag         "before" / "after" (the key for a key press without Ctrl/Cmd:
\*                "plain"); group: the group name handed to moveWithinGroup
\*   prev, prevStore   orderMap and the order store before the handler ran
\*   hover        pointerAt when the handler ran
Ev(op, id, target, flag, group, prev, prevStore, hover) ==
    [op |-> op, id |-> id, target |-> target, flag |-> flag, group |-> group,
     prev |-> prev, prevStore |-> prevStore, hover |-> hover]

Op(op, id, target, flag) ==
    Ev(op, id, target, flag, "", EmptyMap, EmptyMap, noElement)

\* No batch in progress, lastError "".  `files` are the files of the batch not
\* yet handled, each named by what goes wrong with it; `count` is
\* importingCount; batch, done and start record the batch handed to
\* importFiles, the id of the card made for each file handled so far (0: no
\* card) and the number of cards before the batch.
idleImport ==
    [files |-> <<>>, count |-> 0, lastError |-> "", batch |-> <<>>,
     done |-> <<>>, start |-> 0]

\* No deleteCustomCollection in progress.  `n` is the trimmed name, `snapshot`
\* the card list of the render the handler was created in, `i` the position
\* of the loop in it, `filter` the collection filter of that render, `done`
\* whether a call has run to its end.
idleDelete ==
    [active |-> FALSE, done |-> FALSE, n |-> "", snapshot |-> <<>>, i |-> 0,
     filter |-> ""]

uiVars == <<dragging, dropTarget, dropLine, reorderMode, sortMode, pointerAt>>
filterVars == <<favoritesOnly, activeCollection>>
orderVars == <<orderMap, orderStore, orderWrites>>
storeVars == <<metaStore, fileStore, customStore>>
editVars == <<deleting, metaQueue>>
cardVars == <<metas, nextId, clock, customCollections, storeVars, importing,
              editVars>>

\* importFiles, one file: a new card with no collection is stored and upserted.
\* Each file is read and rendered before its card is stamped, so the clock
\* has advanced since the previous card.  At most `limit` cards are imported.
ImportFile(limit) ==
    /\ nextId < limit
    /\ clock' = clock + 1
    /\ LET meta == [id |-> nextId + 1, collection |-> "", createdAt |-> clock',
                    updatedAt |-> clock', favorite |-> FALSE]
       IN /\ fileStore' = setItem(fileStore, meta.id, "file")
          /\ metaStore' = setItem(metaStore, meta.id, meta)
          /\ metas' = upsert(metas, meta)
    /\ nextId' = nextId + 1
    /\ customCollections' = migrateCollections(customStore, metas')
    /\ customStore' = customCollections'
    /\ importing' = [importing EXCEPT !.lastError = ""]
    /\ last' = Op("edit", 0, 0, "")
    /\ UNCHANGED <<editVars, uiVars, filterVars, orderVars, res>>

\* The delete button of a card on screen, confirmed.
RemoveCard(id) ==
    /\ hasId(metas, id)
    /\ metaStore' = removeItem(metaStore, id)
    /\ fileStore' = removeItem(fileStore, id)
    /\ metas' = remove(metas, id)
    /\ customCollections' = migrateCollections(customStore, metas')
    /\ customStore' = customCollections'
    /\ last' = Op("remove", id, 0, "")
    /\ UNCHANGED <<nextId, clock, importing, editVars, uiVars, filterVars,
                   orderVars, res>>

\* The collection select of a card on screen, one of the listed options.
SelectCollection(id, val) ==
    /\ hasId(metas, id)
    /\ \/ val = ""
       \/ val \in Range(DEFAULT_COLLECTIONS)
       \/ val \in Range(customCollections)
    /\ metas' = updateMeta(metas, metaStore, id, [collection |-> val], clock)
    /\ metaStore' = storeAfterUpdate(metaStore, id, [collection |-> val], clock)
    /\ customCollections' = migrateCollections(customStore, metas')
    /\ customStore' = customCollections'
    /\ last' = Op("edit", 0, 0, "")
    /\ UNCHANGED <<nextId, clock, fileStore, importing, editVars, uiVars,
                   filterVars, orderVars, res>>

\* The "+ Add new" option of the collection select with the prompt answered n.
AddNewCollection(id, n) ==
    /\ hasId(metas, id)
    /\ n # ""
    /\ metas' = updateMeta(metas, metaStore, id, [collection |-> n], clock)
    /\ metaStore' = storeAfterUpdate(metaStore, id, [collection |-> n], clock)
    /\ customCollections' =
           migrateCollections(addCustomCollection(customCollections, n), metas')
    /\ customStore' = customCollections'
    /\ last' = Op("edit", 0, 0, "")
    /\ UNCHANGED <<nextId, clock, fileStore, importing, editVars, uiVars,
                   filterVars, orderVars, res>>

\* The star button of a card on screen.
ToggleFavorite(id) ==
    /\ hasId(metas, id)
    /\ LET patch == [favorite |-> ~metaOf(metas, id).favorite]
       IN /\ metas' = updateMeta(metas, metaStore, id, patch, clock)
          /\ metaStore' = storeAfterUpdate(metaStore, id, patch, clock)
    /\ customCollections' = migrateCollections(customStore, metas')
    /\ customStore' = customCollections'
    /\ last' = Op("edit", 0, 0, "")
    /\ UNCHANGED <<nextId, clock, fileStore, importing, editVars, uiVars,
                   filterVars, orderVars, res>>

SetFavoritesOnly(b) ==
    /\ favoritesOnly' = b
    /\ last' = Op("filter", 0, 0, "")
    /\ UNCHANGED <<cardVars, uiVars, activeCollection, orderVars, res>>

\* The collection filter select lists the built-in and the custom collections.
SetActiveCollection(c) ==
    /\ \/ c = ""
       \/ c \in Range(DEFAULT_COLLECTIONS)
       \/ c \in Range(customCollections)
    /\ activeCollection' = c
    /\ last' = Op("filter", 0, 0, "")
    /\ UNCHANGED <<cardVars, uiVars, favoritesOnly, orderVars, res>>

\* The sort select.
SetSortMode(s) ==
    /\ sortMode' = s
    /\ last' = Op("mode", 0, 0, "")
    /\ UNCHANGED <<cardVars, filterVars, orderVars, dragging, dropTarget,
                   dropLine, reorderMode, pointerAt, res>>

\* The Reorder checkbox; it is disabled while a sort is active.
ToggleReorder ==
    /\ sortMode = "none"
    /\ reorderMode' = ~reorderMode
    /\ dragging' = idleDragging
    /\ dropTarget' = noDropTarget
    /\ pointerAt' = noElement
    /\ last' = Op("mode", 0, 0, "")
    /\ UNCHANGED <<cardVars, filterVars, orderVars, dropLine, sortMode, res>>

\* startPointerDrag: pointer-down on the drag handle of card id.
StartPointerDrag(id, button) ==
    /\ hasId(metas, id)
    /\ IF canStartDrag(reorderMode, sortMode, button)
       THEN /\ dragging' = [active |-> TRUE, id |-> id,
                            group |-> groupOf(metaOf(metas, id))]
            /\ dropTarget' = [id |-> id, pos |-> "before"]
            /\ pointerAt' = noElement
       ELSE UNCHANGED <<dragging, dropTarget, pointerAt>>
    /\ last' = Op("startPointerDrag", id, button, "")
    /\ UNCHANGED <<cardVars, filterVars, orderVars, dropLine, reorderMode,
                   sortMode, res>>

\* handlePointerMove, registered on window while dragging.active.
PointerMove(id, half) ==
    /\ dragging.active
    /\ id = 0 \/ hasId(metas, id)
    /\ LET el == elementAt(id, half)
       IN /\ dropTarget' = pointerMoveTarget(el, dragging)
          /\ dropLine' = pointerMoveLine(el, dragging)
          /\ pointerAt' = el
          /\ last' = Ev("pointerMove", dragging.id, 0, "", dragging.group,
                        EmptyMap, EmptyMap, el)
    /\ UNCHANGED <<cardVars, filterVars, orderVars, dragging, reorderMode,
                   sortMode, res>>

\* persistOrder(next): setOrderMap(next) and orderStore.setItem("map", next).
\* The setItem is not awaited; `inFlight` tells whether the step leaves it
\* unresolved (it then resolves in OrderWriteResolves) or includes its
\* resolution.
persistOrder(next, inFlight) ==
    /\ orderMap' = next
    /\ IF inFlight
       THEN orderWrites' = Append(orderWrites, next) /\ UNCHANGED orderStore
       ELSE orderStore' = next /\ UNCHANGED orderWrites

\* handlePointerUp, registered for pointerup and for pointercancel.
PointerEndWith(event, inFlight) ==
    /\ dragging.active
    /\ IF canCommit(dragging, dropTarget)
       THEN persistOrder(pointerUpOrder(orderMap, metas, dragging, dropTarget),
                         inFlight)
       ELSE UNCHANGED orderVars
    /\ dragging' = idleDragging
    /\ dropTarget' = noDropTarget
    /\ dropLine' = noDropLine
    /\ pointerAt' = noElement
    /\ last' = Ev(event, dragging.id,
                  IF canCommit(dragging, dropTarget) THEN dropTarget.id ELSE 0,
                  dropTarget.pos, dragging.group, orderMap, orderStore, pointerAt)
    /\ UNCHANGED <<cardVars, filterVars, reorderMode, sortMode, res>>

PointerEnd(event) == PointerEndWith(event, FALSE)

PointerUp == PointerEnd("pointerup")

PointerCancel == PointerEnd("pointercancel")

\* handleCardKeyDown on the element of card id.
CardKeyDownWith(id, key, ctrl, inFlight) ==
    /\ hasId(metas, id)
    /\ LET m == metaOf(metas, id)
           ordered == IF sortMode = "none" THEN groupOrderedItems(id)
                      ELSE Filtered
           next == keyDownOrder(orderMap, metas, reorderMode, sortMode, m,
                                ordered, key, ctrl)
           moved == /\ reorderMode /\ sortMode = "none" /\ ctrl
                    /\ keyNeighbor(ordered, id, key) \notin {0, id}
       IN /\ IF moved THEN persistOrder(next, inFlight)
             ELSE UNCHANGED orderVars
          /\ last' = Ev("keyDown", id,
                        IF moved THEN keyNeighbor(ordered, id, key) ELSE 0,
                        IF ~ctrl THEN "plain"
                        ELSE IF key = "ArrowUp" THEN "before" ELSE "after",
                        groupOf(m), orderMap, orderStore, noElement)
    /\ UNCHANGED <<cardVars, filterVars, uiVars, res>>

CardKeyDown(id, key, ctrl) == CardKeyDownWith(id, key, ctrl, FALSE)

-----------------------------------------------------------------------------
(* The application after start-up on an empty profile *)

SortModes == {"none", "name_asc"}
Buttons == {0, 2}
Halves == {"before", "after"}
Keys == {"ArrowUp", "ArrowDown"}
PickCollections == {"", "Dayseal"}

Init ==
    /\ metas = <<>>
    /\ nextId = 0
    /\ clock = 1
    /\ orderMap = EmptyMap
    /\ orderStore = EmptyMap
    /\ dragging = idleDragging
    /\ dropTarget = noDropTarget
    /\ dropLine = noDropLine
    /\ reorderMode = FALSE
    /\ sortMode = "none"
    /\ favoritesOnly = FALSE
    /\ activeCollection = ""
    /\ customCollections = <<>>
    /\ pointerAt = noElement
    /\ last = Op("init", 0, 0, "")
    /\ res = <<>>
    /\ metaStore = EmptyStore
    /\ fileStore = EmptyStore
    /\ customStore = <<>>
    /\ orderWrites = <<>>
    /\ importing = idleImport
    /\ deleting = idleDelete
    /\ metaQueue = <<>>

\* Drag gestures interleaved with every other event, on up to MaxDragCards
\* cards.  Every card event is an event of a card that is on screen.
Next ==
    \/ ImportFile(MaxDragCards)
    \/ \E id \in renderedIds, val \in PickCollections : SelectCollection(id, val)
    \/ \E s \in SortModes : SetSortMode(s)
    \/ ToggleReorder
    \/ \E id \in renderedIds, b \in Buttons : StartPointerDrag(id, b)
    \/ \E id \in renderedIds \cup {0}, half \in Halves : PointerMove(id, half)
    \/ PointerUp
    \/ PointerCancel

Spec == Init /\ [][Next]_vars

\* Manual ordering in the folder view on up to MaxCards cards.
NextOrder ==
    \/ ImportFile(MaxCards)
    \/ \E id \in renderedIds : RemoveCard(id)
    \/ ToggleReorder
    \/ \E id \in renderedIds : StartPointerDrag(id, 0)
    \/ \E id \in renderedIds \cup {0}, half \in Halves : PointerMove(id, half)
    \/ PointerUp
    \/ \E id \in renderedIds, key \in Keys, ctrl \in BOOLEAN :
          CardKeyDown(id, key, ctrl)

SpecOrder == Init /\ [][NextOrder]_vars

MaxMemberCards == 2

\* Moves interleaved with imports, deletions and collection changes, also
\* while a drag is in progress, on up to MaxMemberCards cards.
NextMembers ==
    \/ ImportFile(MaxMemberCards)
    \/ \E id \in renderedIds : RemoveCard(id)
    \/ \E id \in renderedIds, val \in PickCollections : SelectCollection(id, val)
    \/ ToggleReorder
    \/ \E id \in renderedIds : StartPointerDrag(id, 0)
    \/ \E id \in renderedIds \cup {0}, half \in Halves : PointerMove(id, half)
    \/ PointerUp
    \/ \E id \in renderedIds, key \in Keys : CardKeyDown(id, key, TRUE)

SpecMembers == Init /\ [][NextMembers]_vars

MaxKeyCards == 4

\* Names typed into the prompt of "+ Add new": two that differ only in letter
\* case, and the lower-cased label of the group of cards with no collection.
KeyNames == {"(none)", "Zeta", "zeta"}

\* Card i of a library of MaxKeyCards cards imported one after the other and
\* then filed under collection c with "+ Add new" (c = "": left unfiled).
keyCard(i, c) ==
    [id |-> i, collection |-> c, createdAt |-> i + 1,
     updatedAt |-> IF c = "" THEN i + 1 ELSE MaxKeyCards + 1,
     favorite |-> FALSE]

\* The custom collection list after cards 1..n were filed in that order.
RECURSIVE filedNames(_, _)
filedNames(filing, n) ==
    IF n = 0 THEN <<>>
    ELSE addCustomCollection(filedNames(filing, n - 1), filing[n])

\* The state after the import of MaxKeyCards files into an empty library and
\* the filing of each card under one of KeyNames or under no collection.
InitKeys ==
    \E filing \in [1..MaxKeyCards -> KeyNames \cup {""}] :
        /\ metas = [i \in 1..MaxKeyCards |-> keyCard(i, filing[i])]
        /\ metaStore = [i \in 1..MaxKeyCards |-> keyCard(i, filing[i])]
        /\ fileStore = [i \in 1..MaxKeyCards |-> "file"]
        /\ nextId = MaxKeyCards
        /\ clock = MaxKeyCards + 1
        /\ orderMap = EmptyMap
        /\ orderStore = EmptyMap
        /\ orderWrites = <<>>
        /\ importing = idleImport
        /\ deleting = idleDelete
        /\ metaQueue = <<>>
        /\ dragging = idleDragging
        /\ dropTarget = noDropTarget
        /\ dropLine = noDropLine
        /\ reorderMode = FALSE
        /\ sortMode = "none"
        /\ favoritesOnly = FALSE
        /\ activeCollection = ""
        /\ customCollections = filedNames(filing, MaxKeyCards)
        /\ customStore = filedNames(filing, MaxKeyCards)
        /\ pointerAt = noElement
        /\ last = Op("init", 0, 0, "")
        /\ res = <<>>

\* Keyboard moves in the folder view on MaxKeyCards cards in groups whose
\* names share an order-map key.
NextKeys ==
    \/ ToggleReorder
    \/ \E id \in renderedIds, key \in Keys : CardKeyDown(id, key, TRUE)

SpecKeys == InitKeys /\ [][NextKeys]_vars

-----------------------------------------------------------------------------
(* The folder view under filters and collection edits *)

ViewCollections == {"", "Dayseal", "Zeta"}
NewNames == {"Zeta", "dayseal"}

NextView ==
    \/ ImportFile(MaxCards)
    \/ \E id \in renderedIds : RemoveCard(id)
    \/ \E id \in renderedIds, val \in ViewCollections : SelectCollection(id, val)
    \/ \E id \in renderedIds, n \in NewNames : AddNewCollection(id, n)
    \/ \E id \in renderedIds : ToggleFavorite(id)
    \/ \E b \in BOOLEAN : SetFavoritesOnly(b)
    \/ \E c \in ViewCollections : SetActiveCollection(c)

SpecView == Init /\ [][NextView]_vars

-----------------------------------------------------------------------------
(* Restore from a backup file *)

MaxRestoreCards == 2
MaxRestores == 1

\* The card list useLocalMeta loads on mount: the stored records in key order,
\* sorted by createdAt.
RECURSIVE valuesInKeyOrder(_)
valuesInKeyOrder(store) ==
    IF DOMAIN store = {} THEN <<>>
    ELSE LET k == CHOOSE x \in DOMAIN store : \A y \in DOMAIN store : x <= y
         IN <<store[k]>> \o valuesInKeyOrder(removeItem(store, k))

loadMetas(store) == sortByCreatedAt(valuesInKeyOrder(store))

\* for (const m of importedMetas) await metaStore.setItem(m.id, m)
RECURSIVE setMetas(_, _)
setMetas(store, ms) ==
    IF ms = <<>> THEN store
    ELSE setMetas(setItem(store, Head(ms).id, Head(ms)), Tail(ms))

\* for (const [id, entry] of Object.entries(importedFiles)) fileStore.setItem
setFiles(store, files) ==
    [k \in DOMAIN store \cup DOMAIN files |->
        IF k \in DOMAIN files THEN files[k] ELSE store[k]]

\* The content of a backup file: JSON.parse gives an object whose properties
\* metas, orderMap and customCollections may be missing (has...).
noData ==
    [hasMetas |-> FALSE, metas |-> <<>>, files |-> EmptyStore,
     hasOrderMap |-> FALSE, orderMap |-> EmptyMap,
     hasCustom |-> FALSE, customCollections |-> <<>>]

\* A backup exported earlier: its stamps are not after the clock at start-up.
backupData ==
    [hasMetas |-> TRUE,
     metas |-> <<[id |-> 1, collection |-> "Zeta", createdAt |-> 1,
                  updatedAt |-> 1, favorite |-> TRUE],
                 [id |-> 9, collection |-> "", createdAt |-> 1,
                  updatedAt |-> 1, favorite |-> FALSE]>>,
     files |-> (1 :> "backup") @@ (9 :> "backup"),
     hasOrderMap |-> TRUE, orderMap |-> ("(none)" :> <<9>>),
     hasCustom |-> TRUE, customCollections |-> <<"Zeta", "Alpha", "Zeta">>]

\* The files the user can pick: `json` is whether the name ends in .json,
\* `parse` what JSON.parse does with the text ("error": it throws, "null":
\* it returns null, "object": it returns `data`).
RestoreFiles ==
    {[json |-> FALSE, parse |-> "error", data |-> noData],
     [json |-> TRUE, parse |-> "error", data |-> noData],
     [json |-> TRUE, parse |-> "null", data |-> noData],
     [json |-> TRUE, parse |-> "object", data |-> noData],
     [json |-> TRUE, parse |-> "object", data |-> backupData]}

\* The four stores as importJson leaves them.
stores(ms, fs, os, cs) ==
    [metaStore |-> ms, fileStore |-> fs, orderStore |-> os, customStore |-> cs]

\* restoredStores without the clearing of the stores in replace mode.
restoredStores_noClear(file, replace, before) ==
    IF ~file.json \/ file.parse = "error" \/ file.parse = "null" THEN before
    ELSE LET d == file.data
         IN stores(IF d.hasMetas THEN setMetas(before.metaStore, d.metas)
                   ELSE before.metaStore,
                   setFiles(before.fileStore, d.files),
                   IF d.hasOrderMap THEN d.orderMap ELSE before.orderStore,
                   IF d.hasCustom THEN sortByLocale(dedup(d.customCollections))
                   ELSE before.customStore)

\* safeImportJson followed by importJson, up to the reload.
restoredStores(file, replace, before) ==
    IF ~file.json \/ file.parse = "error" THEN before
    ELSE LET cleared == IF replace
                        THEN stores(EmptyStore, EmptyStore, EmptyMap, <<>>)
                        ELSE before
             d == file.data
         IN IF file.parse = "null" THEN cleared
            ELSE stores(IF d.hasMetas THEN setMetas(cleared.metaStore, d.metas)
                        ELSE cleared.metaStore,
                        setFiles(cleared.fileStore, d.files),
                        IF d.hasOrderMap THEN d.orderMap ELSE cleared.orderStore,
                        IF d.hasCustom
                        THEN sortByLocale(dedup(d.customCollections))
                        ELSE cleared.customStore)

\* The alert of safeImportJson: wrong extension, or importJson threw.
restoreAlerts(file) == ~file.json \/ file.parse \in {"error", "null"}

\* importJson reaches window.location.reload().
restoreReloads(file) == file.json /\ file.parse = "object"

\* Restores so far (`res` keeps the last one and counts them).
restoresDone == IF res = <<>> THEN 0 ELSE res.count

\* The Restore button: a file is picked and the Replace/Merge dialog answered.
\* After the reload the component is constructed again and loads the card
\* list, the order map and the custom collections from the stores.
Restore(file, replace) ==
    LET before == stores(metaStore, fileStore, orderStore, customStore)
        after == restoredStores(file, replace, before)
    IN /\ restoresDone < MaxRestores
       /\ metaStore' = after.metaStore
       /\ fileStore' = after.fileStore
       /\ orderStore' = after.orderStore
       /\ IF restoreReloads(file)
          THEN /\ metas' = loadMetas(after.metaStore)
               /\ orderMap' = after.orderStore
               /\ customCollections' =
                      migrateCollections(after.customStore, metas')
               /\ customStore' = customCollections'
               /\ dragging' = idleDragging
               /\ dropTarget' = noDropTarget
               /\ dropLine' = noDropLine
               /\ reorderMode' = FALSE
               /\ sortMode' = "none"
               /\ pointerAt' = noElement
               /\ favoritesOnly' = FALSE
               /\ activeCollection' = ""
          ELSE /\ customStore' = after.customStore
               /\ UNCHANGED <<metas, orderMap, customCollections, uiVars,
                              filterVars>>
       /\ res' = [op |-> "restore", file |-> file, replace |-> replace,
                  alerted |-> restoreAlerts(file), before |-> before,
                  count |-> restoresDone + 1]
       /\ last' = Op("restore", 0, 0, "")
       /\ importing' = IF restoreReloads(file) THEN idleImport ELSE importing
       /\ UNCHANGED <<nextId, clock, orderWrites, editVars>>

\* Once the render has thrown nothing is on screen and no handler runs.
NextRestore ==
    \/ ~crashed /\ ImportFile(MaxRestoreCards)
    \/ \E id \in renderedIds : AddNewCollection(id, "Zeta")
    \/ ~crashed /\ ToggleReorder
    \/ \E id \in renderedIds, key \in Keys : CardKeyDown(id, key, TRUE)
    \/ \E file \in RestoreFiles, replace \in BOOLEAN :
          ~crashed /\ Restore(file, replace)

SpecRestore == Init /\ [][NextRestore]_vars

-----------------------------------------------------------------------------
(* orderItemsInGroup applied to arbitrary members and persisted lists *)

\* Members 1..Len(st) of group g, member i created at stamp st[i].
membersOfGroup(g, st) ==
    [i \in 1..Len(st) |-> [id |-> i,
                           collection |-> IF g = NONE THEN "" ELSE g,
                           createdAt |-> st[i], favorite |-> FALSE]]

ResolveGroups == {NONE, "Dayseal"}

\* One call of orderItemsInGroup: the members of a group and the list persisted
\* for it, over the ids 1..MaxCards + 1 (ids above the member count are deleted
\* or foreign cards).
ResolveInput(g, st, ord) ==
    [op |-> "input", group |-> g, items |-> membersOfGroup(g, st),
     idsOrder |-> ord, out |-> <<>>]

InitResolve ==
    /\ metas = <<>>
    /\ nextId = 0
    /\ clock = 1
    /\ orderMap = EmptyMap
    /\ orderStore = EmptyMap
    /\ dragging = idleDragging
    /\ dropTarget = noDropTarget
    /\ dropLine = noDropLine
    /\ reorderMode = FALSE
    /\ sortMode = "none"
    /\ favoritesOnly = FALSE
    /\ activeCollection = ""
    /\ customCollections = <<>>
    /\ pointerAt = noElement
    /\ last = Op("init", 0, 0, "")
    /\ metaStore = EmptyStore
    /\ fileStore = EmptyStore
    /\ customStore = <<>>
    /\ orderWrites = <<>>
    /\ importing = idleImport
    /\ deleting = idleDelete
    /\ metaQueue = <<>>
    /\ \E g \in ResolveGroups, k \in 0..MaxCards, n \in 0..MaxOrderLen :
          \E st \in [1..k -> 1..MaxStamp], ord \in [1..n -> 1..(MaxCards + 1)] :
              res = ResolveInput(g, st, ord)

Resolve ==
    /\ res.op = "input"
    /\ res' = [res EXCEPT
                 !.op = "resolve",
                 !.out = idsOf(orderItemsInGroup(
                             keyForCollection(res.group) :> res.idsOrder,
                             res.group, res.items))]
    /\ UNCHANGED <<cardVars, uiVars, filterVars, orderVars, last>>

NextResolve == Resolve

SpecResolve == InitResolve /\ [][NextResolve]_vars

\* orderItemsInGroup called again with the ids of its output as the persisted
\* list; `given` and `first` keep the list and the output of the first call.
ResolveAgain ==
    /\ res.op = "resolve"
    /\ res' = [op |-> "again", group |-> res.group, items |-> res.items,
               given |-> res.idsOrder, first |-> res.out,
               idsOrder |-> res.out,
               out |-> idsOf(orderItemsInGroup(
                           keyForCollection(res.group) :> res.out,
                           res.group, res.items))]
    /\ UNCHANGED <<cardVars, uiVars, filterVars, orderVars, last>>

NextRoundTrip == Resolve \/ ResolveAgain

SpecRoundTrip == InitResolve /\ [][NextRoundTrip]_vars

-----------------------------------------------------------------------------
(* moveWithinGroup called with the dragged card as its own target *)

\* moveWithinGroup(group, x, x, placeBefore) on the members and the persisted
\* list of the input; `before` and `out` are the ids of the group as
\* orderItemsInGroup gives them under the old and the new order map, `list`
\* the list persisted for the group.
SelfMove(x, placeBefore) ==
    /\ res.op = "input"
    /\ x \in Range(idsOf(res.items))
    /\ LET om == keyForCollection(res.group) :> res.idsOrder
           next == moveWithinGroup(om, res.items, res.group, x, x, placeBefore)
       IN res' = [op |-> "selfMove", group |-> res.group, items |-> res.items,
                  idsOrder |-> res.idsOrder, id |-> x,
                  placeBefore |-> placeBefore,
                  before |-> idsOf(orderItemsInGroup(om, res.group, res.items)),
                  list |-> listAt(next, keyForCollection(res.group)),
                  out |-> idsOf(orderItemsInGroup(next, res.group, res.items))]
    /\ UNCHANGED <<cardVars, uiVars, filterVars, orderVars, last>>

NextSelfMove ==
    \E x \in 1..MaxCards, placeBefore \in BOOLEAN : SelfMove(x, placeBefore)

SpecSelfMove == InitResolve /\ [][NextSelfMove]_vars

-----------------------------------------------------------------------------
(* groupedByCollection applied to arbitrary filtered lists *)

\* Every variable but `res` at its value after construction.
Blank ==
    /\ metas = <<>>
    /\ nextId = 0
    /\ clock = 1
    /\ orderMap = EmptyMap
    /\ orderStore = EmptyMap
    /\ dragging = idleDragging
    /\ dropTarget = noDropTarget
    /\ dropLine = noDropLine
    /\ reorderMode = FALSE
    /\ sortMode = "none"
    /\ favoritesOnly = FALSE
    /\ activeCollection = ""
    /\ customCollections = <<>>
    /\ pointerAt = noElement
    /\ last = Op("init", 0, 0, "")
    /\ metaStore = EmptyStore
    /\ fileStore = EmptyStore
    /\ customStore = <<>>
    /\ orderWrites = <<>>
    /\ importing = idleImport
    /\ deleting = idleDelete
    /\ metaQueue = <<>>

GroupCollections ==
    {"", "Dayseal", "Starseal Registry", "Zeta", "Alpha", "dayseal"}

\* Cards 1..Len(cols) in list order, card i in collection cols[i].
cardsIn(cols) ==
    [i \in 1..Len(cols) |-> [id |-> i, collection |-> cols[i],
                             createdAt |-> i, favorite |-> FALSE]]

InitGroup ==
    /\ Blank
    /\ \E k \in 0..MaxCards : \E cols \in [1..k -> GroupCollections] :
          res = [op |-> "input", items |-> cardsIn(cols), out |-> <<>>]

Group ==
    /\ res.op = "input"
    /\ res' = [res EXCEPT !.op = "grouped",
                          !.out = groupedByCollection(res.items)]
    /\ UNCHANGED <<cardVars, uiVars, filterVars, orderVars, last>>

NextGroup == Group

SpecGroup == InitGroup /\ [][NextGroup]_vars

-----------------------------------------------------------------------------
(* `filtered` applied to one card under arbitrary criteria *)

FilterNames == {<<"B", "a", "r">>, <<"F", "o", "o">>}
FilterTagLists == {<<>>, << <<"f", "o", "o">> >>,
                   << <<"B", "a", "r">>, <<"f", "o", "o", "d">> >>}
FilterCollections == {"", "Dayseal", "dayseal"}
FilterTiers == {"", "Seal", "Lotus"}
FilterQueries == {<<>>, <<"f", "o", "o">>, <<"F", "O", "O">>, <<"o", "o", "d">>,
                  <<"b", "a", "z">>, <<" ", "f", "o", "o", " ">>, <<" ">>}
FilterTags == {<<>>, <<"f", "o", "o">>, <<"b", "a", "r">>}

InitFilter ==
    /\ Blank
    /\ \E name \in FilterNames, tags \in FilterTagLists,
          col \in FilterCollections, tier \in FilterTiers, fav \in BOOLEAN :
        \E query \in FilterQueries, tag \in FilterTags,
           actCol \in FilterCollections, actTier \in FilterTiers,
           favOnly \in BOOLEAN :
          res = [op |-> "input",
                 card |-> [id |-> 1, name |-> name, tags |-> tags,
                           collection |-> col, tier |-> tier, favorite |-> fav],
                 query |-> query, activeTag |-> tag, activeCollection |-> actCol,
                 activeTier |-> actTier, favoritesOnly |-> favOnly,
                 out |-> <<>>]

Filter ==
    /\ res.op = "input"
    /\ res' = [res EXCEPT
                 !.op = "filtered",
                 !.out = filteredBy(<<res.card>>, res.query, res.activeTag,
                                    res.activeCollection, res.activeTier,
                                    res.favoritesOnly)]
    /\ UNCHANGED <<cardVars, uiVars, filterVars, orderVars, last>>

NextFilter == Filter

SpecFilter == InitFilter /\ [][NextFilter]_vars

-----------------------------------------------------------------------------
(* importFiles on batches with unreadable and unrenderable files *)

MaxImportCards == 3

\* What goes wrong with a file: nothing, the thumbnail render throws, or
\* file.arrayBuffer() rejects.
Faults == {"none", "render", "read"}

\* The files left after one pass of the loop whose try block ends at the first
\* failure of the whole batch.
afterFile_abortOnFailure(files) ==
    IF Head(files) = "read" THEN <<>> ELSE Tail(files)

\* The loop body is a try / catch / finally: the loop goes on to the next
\* file whatever happened to this one.
afterFile(files) == Tail(files)

\* The card importFiles builds for a file that could be read.
importedMeta(id, now, fault) ==
    [id |-> id, collection |-> "", createdAt |-> now, updatedAt |-> now,
     favorite |-> FALSE,
     thumbnailDataUrl |-> IF fault = "render" THEN "placeholder"
                          ELSE "rendered"]

\* importFiles(files) up to the first await of the loop.  One batch runs at a
\* time and at most MaxImportCards files are handed in over all batches.
StartImport(files) ==
    /\ files # <<>>
    /\ importing.files = <<>>
    /\ nextId + Len(files) <= MaxImportCards
    /\ importing' = [files |-> files, count |-> importing.count + Len(files),
                     lastError |-> "", batch |-> files, done |-> <<>>,
                     start |-> Len(metas)]
    /\ last' = Op("import", 0, 0, "")
    /\ UNCHANGED <<metas, nextId, clock, customCollections, storeVars,
                   editVars, uiVars, filterVars, orderVars, res>>

\* One pass of the loop of importFiles.
ImportNext ==
    /\ importing.files # <<>>
    /\ LET fault == Head(importing.files)
           count == IF importing.count - 1 > 0 THEN importing.count - 1 ELSE 0
       IN IF fault = "read"
          THEN /\ importing' = [importing EXCEPT
                                  !.files = afterFile(importing.files),
                                  !.count = count,
                                  !.lastError = "Failed to import",
                                  !.done = Append(importing.done, 0)]
               /\ UNCHANGED <<metas, nextId, clock, customCollections,
                              storeVars>>
          ELSE /\ clock' = clock + 1
               /\ nextId' = nextId + 1
               /\ LET meta == importedMeta(nextId', clock', fault)
                  IN /\ fileStore' = setItem(fileStore, meta.id, "file")
                     /\ metaStore' = setItem(metaStore, meta.id, meta)
                     /\ metas' = upsert(metas, meta)
               /\ customCollections' = migrateCollections(customStore, metas')
               /\ customStore' = customCollections'
               /\ importing' = [importing EXCEPT
                                  !.files = afterFile(importing.files),
                                  !.count = count,
                                  !.done = Append(importing.done, nextId')]
    /\ last' = Op("import", 0, 0, "")
    /\ UNCHANGED <<editVars, uiVars, filterVars, orderVars, res>>

NextImport ==
    \/ \E n \in 1..MaxImportCards : \E files \in [1..n -> Faults] :
          StartImport(files)
    \/ ImportNext
    \/ \E id \in renderedIds : ToggleFavorite(id)

SpecImport == Init /\ [][NextImport]_vars

-----------------------------------------------------------------------------
(* deleteCustomCollection while other metadata edits are in flight *)

MaxDeleteCards == 2
MaxStarCalls == 1

\* (m.collection || "").toLowerCase() === n.toLowerCase()
holds(m, n) == toLowerCase(m.collection) = toLowerCase(n)

\* The next card of the loop `for (const m of metas)` after position `from`
\* that holds collection n (0: the loop is over).
nextHolder(snapshot, n, from) ==
    LET later == {j \in (from + 1)..Len(snapshot) : holds(snapshot[j], n)}
    IN IF later = {} THEN 0
       ELSE CHOOSE j \in later : \A k \in later : j <= k

\* A call updateMeta(id, patch) at its first await.  `phase` names the
\* metaStore request the call waits on: the getItem of updateMeta, its
\* setItem, or the setItem of upsert; `updated` is the record built from
\* what getItem returned.
metaCall(by, id, patch) ==
    [by |-> by, id |-> id, patch |-> patch, phase |-> "getItem",
     updated |-> noMeta]

callsBy(by) ==
    Cardinality({i \in 1..Len(metaQueue) : metaQueue[i].by = by})

\* The star button of a card on screen, the call left at its first await.
StarClick(id) ==
    /\ hasId(metas, id)
    /\ callsBy("star") < MaxStarCalls
    /\ metaQueue' = Append(metaQueue,
                           metaCall("star", id,
                                    [favorite |-> ~metaOf(metas, id).favorite]))
    /\ last' = Op("edit", id, 0, "")
    /\ UNCHANGED <<metas, nextId, clock, customCollections, storeVars, importing,
                   deleting, uiVars, filterVars, orderVars, res>>

\* deleteCustomCollection(n), confirmed, up to the first await of the loop.
\* The handler keeps the card list and the collection filter of its render.
DeleteCustomCollection(n) ==
    /\ ~deleting.active
    /\ n # ""
    /\ ~isDefaultCI(n)
    /\ inListCI(customCollections, n)
    /\ LET other(c) == toLowerCase(c) # toLowerCase(n)
           j == nextHolder(metas, n, 0)
       IN /\ customCollections' = SelectSeq(customCollections, other)
          /\ customStore' = customCollections'
          /\ deleting' = [active |-> j # 0, done |-> j = 0, n |-> n,
                          snapshot |-> metas, i |-> j,
                          filter |-> activeCollection]
          /\ metaQueue' =
                 IF j = 0 THEN metaQueue
                 ELSE Append(metaQueue,
                             metaCall("delete", metas[j].id, [collection |-> ""]))
          /\ activeCollection' =
                 IF j = 0 /\ toLowerCase(activeCollection) = toLowerCase(n)
                 THEN "" ELSE activeCollection
    /\ last' = Op("deleteCollection", 0, 0, "")
    /\ UNCHANGED <<metas, nextId, clock, metaStore, fileStore, importing,
                   uiVars, favoritesOnly, orderVars, res>>

\* The metaStore serves its oldest request and the call that made it runs to
\* its next await.  A call of the loop of deleteCustomCollection that has
\* finished lets the loop go on to the next card that held the collection in
\* the card list of the handler, or to the end of the handler.
ServeMeta ==
    /\ metaQueue # <<>>
    /\ LET c == Head(metaQueue)
           rest == Tail(metaQueue)
       IN CASE c.phase = "getItem" ->
                 /\ metaQueue' =
                        Append(rest,
                               [c EXCEPT !.phase = "setItem",
                                         !.updated = updatedMeta(metaStore, c.id,
                                                                 c.patch, clock)])
                 /\ UNCHANGED <<metas, metaStore, customCollections,
                                customStore, deleting, activeCollection>>
            [] c.phase = "setItem" ->
                 /\ metaStore' = setItem(metaStore, c.id, c.updated)
                 /\ metaQueue' = Append(rest, [c EXCEPT !.phase = "upsert"])
                 /\ UNCHANGED <<metas, customCollections, customStore,
                                deleting, activeCollection>>
            [] c.phase = "upsert" ->
                 /\ metaStore' = setItem(metaStore, c.updated.id, c.updated)
                 /\ metas' = upsert(metas, c.updated)
                 /\ customCollections' =
                        migrateCollections(customStore, metas')
                 /\ customStore' = customCollections'
                 /\ IF c.by # "delete"
                    THEN /\ metaQueue' = rest
                         /\ UNCHANGED <<deleting, activeCollection>>
                    ELSE LET j == nextHolder(deleting.snapshot, deleting.n,
                                             deleting.i)
                         IN /\ deleting' = [deleting EXCEPT !.active = j # 0,
                                                            !.done = j = 0,
                                                            !.i = j]
                            /\ metaQueue' =
                                   IF j = 0 THEN rest
                                   ELSE Append(rest,
                                               metaCall("delete",
                                                        deleting.snapshot[j].id,
                                                        [collection |-> ""]))
                            /\ activeCollection' =
                                   IF /\ j = 0
                                      /\ toLowerCase(deleting.filter)
                                            = toLowerCase(deleting.n)
                                   THEN "" ELSE activeCollection
    /\ last' = Op("served", 0, 0, "")
    /\ UNCHANGED <<nextId, clock, fileStore, importing, uiVars, favoritesOnly,
                   orderVars, res>>

\* No edit is in flight and no collection has been deleted yet.
quiet == metaQueue = <<>> /\ ~deleting.active /\ ~deleting.done

DeleteNames == {"Zeta", "zeta"}

\* Cards are imported and put in a custom collection; then the collection is
\* deleted once, with star clicks before, during and after the deletion.
NextDelete ==
    \/ quiet /\ ImportFile(MaxDeleteCards)
    \/ \E id \in renderedIds, n \in DeleteNames :
          quiet /\ AddNewCollection(id, n)
    \/ \E n \in Range(customCollections) :
          ~deleting.done /\ DeleteCustomCollection(n)
    \/ \E id \in renderedIds : StarClick(id)
    \/ ServeMeta

SpecDelete == Init /\ [][NextDelete]_vars

MaxEditCards == 2
MaxRemoveCalls == 1

\* A call remove(id) at its first await: it waits on metaStore.removeItem,
\* then on fileStore.removeItem, and drops the card from memory last.
removeCall(id) ==
    [by |-> "remove", id |-> id, patch |-> [id |-> id],
     phase |-> "removeMeta", updated |-> noMeta]

\* The delete button of a card on screen, confirmed; the call is left at its
\* first await, behind the store requests made before it.
RemoveClick(id) ==
    /\ hasId(metas, id)
    /\ callsBy("remove") < MaxRemoveCalls
    /\ metaQueue' = Append(metaQueue, removeCall(id))
    /\ last' = Op("remove", id, 0, "")
    /\ UNCHANGED <<metas, nextId, clock, customCollections, storeVars, importing,
                   deleting, uiVars, filterVars, orderVars, res>>

\* The oldest request is one of a call remove(id): it is served and the call
\* runs to its next await, or to its setMetas and the effect on [metas].
ServeRemove ==
    /\ metaQueue # <<>>
    /\ Head(metaQueue).by = "remove"
    /\ LET c == Head(metaQueue)
           rest == Tail(metaQueue)
       IN /\ IF c.phase = "removeMeta"
             THEN /\ metaStore' = removeItem(metaStore, c.id)
                  /\ metaQueue' = Append(rest, [c EXCEPT !.phase = "removeFile"])
                  /\ UNCHANGED <<metas, fileStore, customCollections,
                                 customStore>>
             ELSE /\ fileStore' = removeItem(fileStore, c.id)
                  /\ metas' = remove(metas, c.id)
                  /\ customCollections' =
                         migrateCollections(customStore, metas')
                  /\ customStore' = customCollections'
                  /\ metaQueue' = rest
                  /\ UNCHANGED metaStore
          /\ last' = Op("removed", c.id, 0, "")
    /\ UNCHANGED <<nextId, clock, importing, deleting, uiVars, filterVars,
                   orderVars, res>>

\* The oldest request is one of a call updateMeta(id, patch).
ServeEdit ==
    /\ metaQueue # <<>>
    /\ Head(metaQueue).by # "remove"
    /\ ServeMeta

\* Cards are imported, put in a custom collection, starred and deleted, and
\* the collection is deleted once; star clicks, card deletions and the
\* collection deletion overlap.  A card list that holds a record without an
\* id takes no further event.
NextEdits ==
    \/ quiet /\ ImportFile(MaxEditCards)
    \/ \E id \in renderedIds, n \in {"Zeta"} :
          quiet /\ AddNewCollection(id, n)
    \/ \E n \in Range(customCollections) :
          ~crashed /\ ~deleting.done /\ DeleteCustomCollection(n)
    \/ \E id \in renderedIds : ~crashed /\ StarClick(id)
    \/ \E id \in renderedIds : ~crashed /\ RemoveClick(id)
    \/ ServeEdit
    \/ ServeRemove

SpecEdits == Init /\ [][NextEdits]_vars

-----------------------------------------------------------------------------
(* `sortedFlat` applied to arbitrary filtered lists *)

MaxSortLen == 3

\* sorters[mode](a, b).  A page count or time stamp of 0 stands for an absent
\* one, which `|| 0` reads as 0.
sorters(mode, a, b) ==
    CASE mode = "name_asc" -> localeCompare(a.name, b.name)
      [] mode = "name_desc" -> localeCompare(b.name, a.name)
      [] mode = "created_new" -> b.createdAt - a.createdAt
      [] mode = "created_old" -> a.createdAt - b.createdAt
      [] mode = "updated_new" -> b.updatedAt - a.updatedAt
      [] mode = "pages_desc" -> b.pages - a.pages
      [] mode = "pages_asc" -> a.pages - b.pages
      [] OTHER -> 0

\* insertBy with the test `>= 0`: the new element passes its equals.
RECURSIVE insertBy_passEquals(_, _, _)
insertBy_passEquals(mode, s, m) ==
    IF s = <<>> THEN <<m>>
    ELSE IF sorters(mode, s[Len(s)], m) >= 0
         THEN Append(insertBy_passEquals(mode, SubSeq(s, 1, Len(s) - 1), m),
                     s[Len(s)])
         ELSE Append(s, m)

\* Array.prototype.sort(cmp) is stable: an element moves in front of exactly
\* the elements that compare greater than it.
RECURSIVE insertBy(_, _, _)
insertBy(mode, s, m) ==
    IF s = <<>> THEN <<m>>
    ELSE IF sorters(mode, s[Len(s)], m) > 0
         THEN Append(insertBy(mode, SubSeq(s, 1, Len(s) - 1), m), s[Len(s)])
         ELSE Append(s, m)

RECURSIVE sortBy(_, _)
sortBy(mode, s) ==
    IF s = <<>> THEN <<>>
    ELSE insertBy(mode, sortBy(mode, SubSeq(s, 1, Len(s) - 1)), s[Len(s)])

sortedFlat(filt, mode) ==
    IF mode # "none" THEN sortBy(mode, filt) ELSE filt

AllSortModes == {"none", "name_asc", "name_desc", "created_new", "created_old",
                 "updated_new", "pages_desc", "pages_asc"}
SortNames == {"alpha", "Zeta"}
SortStamps == {<<1, 1>>, <<1, 2>>, <<2, 2>>}
SortPages == {0, 1}

InitSort ==
    /\ Blank
    /\ \E mode \in AllSortModes, n \in 0..MaxSortLen :
         \E names \in [1..n -> SortNames], stamps \in [1..n -> SortStamps],
            pages \in [1..n -> SortPages] :
           res = [op |-> "input", mode |-> mode,
                  filtered |-> [i \in 1..n |->
                                  [id |-> i, name |-> names[i],
                                   createdAt |-> stamps[i][1],
                                   updatedAt |-> stamps[i][2],
                                   pages |-> pages[i]]],
                  out |-> <<>>]

Sort ==
    /\ res.op = "input"
    /\ res' = [res EXCEPT !.op = "sorted",
                          !.out = sortedFlat(res.filtered, res.mode)]
    /\ UNCHANGED <<cardVars, uiVars, filterVars, orderVars, last>>

NextSort == Sort

SpecSort == InitSort /\ [][NextSort]_vars

-----------------------------------------------------------------------------
(* Moves committed while earlier order-store writes are still unresolved *)

MaxWriteCards == 4
MaxWrites == 2

\* The requests of one localforage instance reach IndexedDB in the order of
\* the calls, and IndexedDB completes the write transactions of one object
\* store in that order: the write resolved next is the oldest one in flight.
\* The result is <<value written, writes still in flight>>.
resolveWrite_newestFirst(writes) ==
    <<writes[Len(writes)], SubSeq(writes, 1, Len(writes) - 1)>>

resolveWrite(writes) ==
    <<Head(writes), Tail(writes)>>

\* The library after MaxWriteCards files were imported and the later half of
\* the cards were then put in "Dayseal" with the collection select.
writeCard(i) ==
    IF 2 * i > MaxWriteCards
    THEN [id |-> i, collection |-> "Dayseal", createdAt |-> i + 1,
          updatedAt |-> MaxWriteCards + 1, favorite |-> FALSE]
    ELSE [id |-> i, collection |-> "", createdAt |-> i + 1,
          updatedAt |-> i + 1, favorite |-> FALSE]

InitWrites ==
    /\ metas = [i \in 1..MaxWriteCards |-> writeCard(i)]
    /\ metaStore = [i \in 1..MaxWriteCards |-> writeCard(i)]
    /\ fileStore = [i \in 1..MaxWriteCards |-> "file"]
    /\ nextId = MaxWriteCards
    /\ clock = MaxWriteCards + 1
    /\ orderMap = EmptyMap
    /\ orderStore = EmptyMap
    /\ orderWrites = <<>>
    /\ importing = idleImport
    /\ deleting = idleDelete
    /\ metaQueue = <<>>
    /\ dragging = idleDragging
    /\ dropTarget = noDropTarget
    /\ dropLine = noDropLine
    /\ reorderMode = FALSE
    /\ sortMode = "none"
    /\ favoritesOnly = FALSE
    /\ activeCollection = ""
    /\ customCollections = <<>>
    /\ customStore = <<>>
    /\ pointerAt = noElement
    /\ last = Op("init", 0, 0, "")
    /\ res = <<>>

\* An orderStore.setItem("map", ..) issued by persistOrder resolves.
OrderWriteResolves ==
    /\ orderWrites # <<>>
    /\ orderStore' = resolveWrite(orderWrites)[1]
    /\ orderWrites' = resolveWrite(orderWrites)[2]
    /\ UNCHANGED <<cardVars, filterVars, uiVars, orderMap, last, res>>

\* Every event is handled by the handlers of the render that followed the
\* previous event (the listeners effect depends on orderMap), so a handler
\* reads the order map the previous handler set even when that handler's
\* store write is still in flight.
NextWrites ==
    \/ ToggleReorder
    \/ \E id \in renderedIds : StartPointerDrag(id, 0)
    \/ \E id \in renderedIds \cup {0}, half \in Halves : PointerMove(id, half)
    \/ Len(orderWrites) < MaxWrites /\ PointerEndWith("pointerup", TRUE)
    \/ \E id \in renderedIds, key \in Keys :
          Len(orderWrites) < MaxWrites /\ CardKeyDownWith(id, key, TRUE, TRUE)
    \/ OrderWriteResolves

SpecWrites == InitWrites /\ [][NextWrites]_vars

\* The getItem("map") of the load effect while it is in flight on the order
\* store, queued with the writes: an entry no write can be equal to.
loadRequest == "getItem" :> <<>>

\* The order map a previous session left in the order store: both groups of
\* the library were reordered by hand.
storedAtStartup == ("(none)" :> <<2, 1>>) @@ ("dayseal" :> <<4, 3>>)

\* The app right after start-up on the library of InitWrites: the cards are
\* loaded, the order map in memory is still the empty one of useState and
\* the getItem of the load effect has not resolved yet.
InitStartup ==
    /\ metas = [i \in 1..MaxWriteCards |-> writeCard(i)]
    /\ metaStore = [i \in 1..MaxWriteCards |-> writeCard(i)]
    /\ fileStore = [i \in 1..MaxWriteCards |-> "file"]
    /\ nextId = MaxWriteCards
    /\ clock = MaxWriteCards + 1
    /\ orderMap = EmptyMap
    /\ orderStore = storedAtStartup
    /\ orderWrites = <<loadRequest>>
    /\ importing = idleImport
    /\ deleting = idleDelete
    /\ metaQueue = <<>>
    /\ dragging = idleDragging
    /\ dropTarget = noDropTarget
    /\ dropLine = noDropLine
    /\ reorderMode = FALSE
    /\ sortMode = "none"
    /\ favoritesOnly = FALSE
    /\ activeCollection = ""
    /\ customCollections = <<>>
    /\ customStore = <<>>
    /\ pointerAt = noElement
    /\ last = Op("init", 0, 0, "")
    /\ res = <<>>

\* The getItem of the load effect resolves: setOrderMap(map || {}).  It was
\* issued before every write of this session, so it returns what the store
\* held at start-up.
LoadResolves ==
    /\ orderWrites # <<>>
    /\ Head(orderWrites) = loadRequest
    /\ orderMap' = orderStore
    /\ orderWrites' = Tail(orderWrites)
    /\ last' = Op("loaded", 0, 0, "")
    /\ UNCHANGED <<cardVars, filterVars, uiVars, orderStore, res>>

\* The oldest request on the order store is a write and resolves.
StoreWriteResolves ==
    /\ orderWrites # <<>>
    /\ Head(orderWrites) # loadRequest
    /\ OrderWriteResolves

\* The writes in flight on the order store.
pendingWrites ==
    LET isWrite(w) == w # loadRequest
    IN Len(SelectSeq(orderWrites, isWrite))

\* Keyboard moves right after start-up, before and after the load of the
\* order map has resolved.
NextStartup ==
    \/ ToggleReorder
    \/ \E id \in renderedIds, key \in Keys :
          pendingWrites < MaxWrites /\ CardKeyDownWith(id, key, TRUE, TRUE)
    \/ LoadResolves
    \/ StoreWriteResolves

SpecStartup == InitStartup /\ [][NextStartup]_vars

-----------------------------------------------------------------------------
(* Properties *)

IsPermOf(seq, set) == Range(seq) = set /\ Len(seq) = Cardinality(set)

without(seq, x) ==
    LET keep(y) == y # x
    IN SelectSeq(seq, keep)

\* The last step called moveWithinGroup(last.group, last.id, last.target, ..).
Moved ==
    /\ last.op \in {"pointerup", "pointercancel", "keyDown"}
    /\ last.target # 0

lastKey == keyForCollection(last.group)

\* Current members of the group of the last move (a move leaves metas alone).
lastMembers == Range(groupIdsOf(metas, last.group))

\* The ids of a group in display order under order map om.
resolvedIds(om, group) ==
    LET inGroup(m) == groupOf(m) = group
    IN idsOf(orderItemsInGroup(om, group, SelectSeq(Filtered, inGroup)))

swapAt(seq, i, j) ==
    [k \in 1..Len(seq) |-> IF k = i THEN seq[j] ELSE IF k = j THEN seq[i] ELSE seq[k]]

\* C1: after a Move whose dragged and target cards are both current members
\* of the group, the list persisted for the group is a permutation of the
\* group's current members, whatever the list was before.
C1_MovePreservesMembership ==
    (Moved /\ last.id \in lastMembers /\ last.target \in lastMembers)
        => IsPermOf(listAt(orderMap, lastKey), lastMembers)

\* C2: orderItemsInGroup returns every member exactly once and nothing else,
\* for every persisted list (empty, stale, with foreign ids, with repeats).
C2_ResolveTotality ==
    res.op = "resolve" => IsPermOf(res.out, Range(idsOf(res.items)))

\* C2 case: two or more members, a persisted list that repeats a member and
\* names a card that is not a member.
C2_Witness ==
    /\ res.op = "resolve"
    /\ Len(res.items) >= 2
    /\ \E i, j \in 1..Len(res.idsOrder) :
          i < j /\ res.idsOrder[i] = res.idsOrder[j]
               /\ res.idsOrder[i] \in Range(idsOf(res.items))
    /\ \E i \in 1..Len(res.idsOrder) :
          res.idsOrder[i] \notin Range(idsOf(res.items))

\* C3: when the persisted list is a permutation of the members and dragged and
\* target are distinct members, Move puts the dragged id immediately before
\* (placeBefore) or immediately after the target and keeps the relative order
\* of all other ids.
C3_MoveRespectsRelativePosition ==
    (/\ Moved
     /\ IsPermOf(listAt(last.prev, lastKey), lastMembers)
     /\ last.id \in lastMembers /\ last.target \in lastMembers
     /\ last.id # last.target)
        => LET old == listAt(last.prev, lastKey)
               new == listAt(orderMap, lastKey)
               d == indexOf(new, last.id)
               t == indexOf(new, last.target)
           IN /\ d > 0 /\ t > 0
              /\ last.flag = "before" => t = d + 1
              /\ last.flag = "after" => d = t + 1
              /\ without(new, last.id) = without(old, last.id)

\* C3 case: [1,2,3] with Move(3, 1, before) gives [3,1,2].
C3_Witness ==
    /\ last.op = "pointerup" /\ last.id = 3 /\ last.target = 1
    /\ last.flag = "before"
    /\ lastMembers = {1, 2, 3}
    /\ listAt(last.prev, lastKey) = <<1, 2, 3>>
    /\ listAt(orderMap, lastKey) = <<3, 1, 2>>

C5_KeyboardSwapsNeighbour ==
    (/\ last.op = "keyDown" /\ last.flag \in {"before", "after"}
     /\ reorderMode /\ sortMode = "none")
        => LET old == resolvedIds(last.prev, last.group)
               new == resolvedIds(orderMap, last.group)
               i == indexOf(old, last.id)
           IN /\ (last.flag = "before" /\ i > 1) => new = swapAt(old, i - 1, i)
              /\ (last.flag = "after" /\ i > 0 /\ i < Len(old))
                     => new = swapAt(old, i, i + 1)

\* C6: a pointercancel leaves the order map and the order store as they were
\* and returns the controller to Idle with no drop target.
C6_CancelDiscardsGesture ==
    last.op = "pointercancel"
        => /\ orderMap = last.prev /\ orderStore = last.prevStore
           /\ dragging = idleDragging /\ dropTarget = noDropTarget

\* C7: a pointer-up persists the result of Move exactly when the last
\* pointer-move found a card of the drag's group other than the dragged card;
\* otherwise the order map is unchanged.  Either way the controller is Idle
\* with drop target and drop indicator cleared.
C7_PointerUpRule ==
    last.op = "pointerup"
        => LET h == last.hover
               valid == h.id # 0 /\ h.group = last.group /\ h.id # last.id
           IN /\ valid => /\ orderMap = moveWithinGroup(last.prev, metas,
                                            last.group, last.id, h.id,
                                            h.half = "before")
                          /\ orderStore = orderMap
              /\ ~valid => orderMap = last.prev /\ orderStore = last.prevStore
              /\ dragging = idleDragging
              /\ dropTarget = noDropTarget
              /\ dropLine = noDropLine

\* C7 case: a pointer-up that committed a move and changed the order map.
C7_Witness ==
    /\ last.op = "pointerup"
    /\ last.hover.id # 0 /\ last.hover.id # last.id
    /\ last.hover.group = last.group
    /\ orderMap # last.prev

\* C8: a pointer-move that finds no card, or a card whose grid cannot be
\* located, shows no drop indicator, and a pointer-up after it commits nothing.
C8_GeometryMissNoCommit ==
    LET miss == last.hover.id = 0 \/ last.hover.grid = ""
    IN /\ (last.op = "pointerMove" /\ miss) => ~dropLine.visible
       /\ (last.op = "pointerup" /\ miss)
              => orderMap = last.prev /\ orderStore = last.prevStore

\* C9: the controller leaves Idle only by a primary-button pointer-down on a
\* drag handle with reorder mode on and sort mode none; a pointer-down with
\* another button, with reorder mode off or under another sort mode leaves
\* it Idle.
C9_DragStartGuard ==
    [][/\ (~dragging.active /\ dragging'.active)
            => /\ last'.op = "startPointerDrag" /\ last'.target = 0
               /\ reorderMode /\ sortMode = "none"
               /\ dragging'.id = last'.id
       /\ (/\ last'.op = "startPointerDrag"
           /\ ~dragging.active
           /\ ~(last'.target = 0 /\ reorderMode /\ sortMode = "none"))
            => ~dragging'.active]_vars

\* C9 case: a drag that has just started.
C9_Witness ==
    /\ last.op = "startPointerDrag" /\ last.target = 0
    /\ dragging.active /\ dragging.id = last.id

\* C10: under sort mode none every filtered card is in exactly one group's
\* member list, once, and the groups hold filtered cards only.
C10_GroupingIsPartition ==
    sortMode = "none"
        => /\ \A i \in 1..Len(Filtered) :
                 Cardinality({<<g, k>> \in (1..Len(Grouped)) \X (1..Len(Filtered)) :
                                 /\ k <= Len(Grouped[g].items)
                                 /\ Grouped[g].items[k].id = Filtered[i].id}) = 1
           /\ \A g \in 1..Len(Grouped) :
                 Range(idsOf(Grouped[g].items)) \subseteq Range(idsOf(Filtered))

\* Place of a group name in the listing: built-in, custom, "(None)".
bucketRank(name) ==
    IF name \in Range(DEFAULT_COLLECTIONS) THEN 1
    ELSE IF name = NONE THEN 3 ELSE 2

\* C11: the groups are listed built-in collections first in the order of
\* DEFAULT_COLLECTIONS, then the custom collections in alphabetical order, then
\* "(None)"; every listed group has a card, and every built-in or custom
\* collection of a filtered card (and "(None)" for a card without one) is
\* listed once.
C11_GroupingBucketOrder ==
    res.op = "grouped"
        => LET out == res.out
               n == Len(out)
           IN /\ \A i \in 1..n : out[i].items # <<>>
              /\ \A i, j \in 1..n : i < j =>
                    /\ out[i].name # out[j].name
                    /\ bucketRank(out[i].name) <= bucketRank(out[j].name)
                    /\ (bucketRank(out[i].name) = 1 /\ bucketRank(out[j].name) = 1)
                          => indexOf(DEFAULT_COLLECTIONS, out[i].name)
                                 < indexOf(DEFAULT_COLLECTIONS, out[j].name)
                    /\ (bucketRank(out[i].name) = 2 /\ bucketRank(out[j].name) = 2)
                          => localeCompare(out[i].name, out[j].name) < 0
              /\ \A k \in 1..Len(res.items) :
                    LET g == groupOf(res.items[k])
                    IN (g \in Range(DEFAULT_COLLECTIONS) \/ ~isDefaultCI(g))
                          => \E i \in 1..n : out[i].name = g

\* C11 case: cards without collection, in "Zeta" and in the last built-in
\* collection, met in that order, are listed built-in, custom, "(None)".
C11_Witness ==
    /\ res.op = "grouped"
    /\ [i \in 1..Len(res.items) |-> res.items[i].collection]
           = <<"", "Zeta", "Starseal Registry">>
    /\ [i \in 1..Len(res.out) |-> res.out[i].name]
           = <<"Starseal Registry", "Zeta", NONE>>

\* q occurs in t when letter case is ignored.
occursIgnoringCase(q, t) ==
    \E i \in 1..(Len(t) + 1), j \in 0..Len(t) :
        toLowerText(SubSeq(t, i, j)) = toLowerText(q)

\* The criteria of the filter other than the query.
otherCriteriaHold(r) ==
    /\ (r.activeTag # <<>> => r.activeTag \in Range(r.card.tags))
    /\ (r.activeCollection # "" => r.card.collection = r.activeCollection)
    /\ (r.activeTier # "" => r.card.tier = r.activeTier)
    /\ (r.favoritesOnly => r.card.favorite)

\* C12 as stated: a card is in the filtered set exactly when the query is empty
\* or occurs, ignoring case, in the name or in a tag, and the tag, collection
\* (exact), tier and favorites-only criteria hold.
C12_FilterConjunction ==
    res.op = "filtered"
        => ((res.out = <<res.card>>)
              <=> /\ \/ res.query = <<>>
                     \/ occursIgnoringCase(res.query, res.card.name)
                     \/ \E t \in Range(res.card.tags) :
                           occursIgnoringCase(res.query, t)
                  /\ otherCriteriaHold(res))

\* C12 amended: the same with the query taken without the white space around
\* it; a card that is not in the filtered set leaves it empty.
C12_FilterConjunctionTrimmed ==
    res.op = "filtered"
        => /\ res.out \in {<<>>, <<res.card>>}
           /\ (res.out = <<res.card>>)
                <=> /\ \/ trim(res.query) = <<>>
                       \/ occursIgnoringCase(trim(res.query), res.card.name)
                       \/ \E t \in Range(res.card.tags) :
                             occursIgnoringCase(trim(res.query), t)
                    /\ otherCriteriaHold(res)

\* C12 case: all five criteria are set and the card passes, the query (typed
\* with white space around it) through a tag.
C12_Witness ==
    /\ res.op = "filtered"
    /\ res.query = <<" ", "f", "o", "o", " ">>
    /\ res.activeTag = <<"f", "o", "o">>
    /\ res.activeCollection = "Dayseal" /\ res.activeTier = "Seal"
    /\ res.favoritesOnly
    /\ res.card.name = <<"B", "a", "r">>
    /\ res.out = <<res.card>>

\* The ids of a group of card list ms in display order under order map om.
resolvedOf(ms, om, group) ==
    LET inGroup(m) == groupOf(m) = group
        shown == filtered(ms, activeCollection, favoritesOnly)
    IN idsOf(orderItemsInGroup(om, group, SelectSeq(shown, inGroup)))

\* C13: deleting a card writes neither the order map nor the order store, and
\* the resolved order of the card's group afterwards is the order before
\* without the deleted id.
C13_DeleteLeavesOrderMap ==
    [][last'.op = "remove"
         => LET g == groupOf(metaOf(metas, last'.id))
            IN /\ orderMap' = orderMap /\ orderStore' = orderStore
               /\ resolvedOf(metas', orderMap', g)
                     = without(resolvedOf(metas, orderMap, g), last'.id)]_vars

\* C13 case: two unassigned cards, [2, 1] persisted by a move, card 1 deleted:
\* the list still names card 1 and the group resolves to [2].
C13_Witness ==
    /\ last.op = "remove" /\ last.id = 1
    /\ listAt(orderMap, keyForCollection(NONE)) = <<2, 1>>
    /\ idsOf(metas) = <<2>>
    /\ resolvedOf(metas, orderMap, NONE) = <<2>>

theStores == stores(metaStore, fileStore, orderStore, customStore)

\* A file with the wrong extension, with text that does not parse, or whose
\* JSON lacks the card list.
invalidBackup(file) ==
    ~file.json \/ file.parse # "object" \/ ~file.data.hasMetas

\* C16: a restore from an invalid file leaves the card store, the file store,
\* the order store and the custom-collection store as they were, in merge mode
\* and in replace mode (the claim asks in addition that the user is told:
\* res.alerted).
C16_InvalidRestoreAborts ==
    (last.op = "restore" /\ invalidBackup(res.file))
        => theStores = res.before

\* Ids of the cards of a backup.
backupIds(d) == {d.metas[i].id : i \in 1..Len(d.metas)}

\* C17: a merge restore leaves every stored card (metadata and bytes) whose id
\* is not in the backup as it was and stores the backup's cards and files; a
\* replace restore leaves exactly the backup's cards and files in the card
\* store and the file store.
C17_RestoreModes ==
    (last.op = "restore" /\ res.file.json /\ res.file.parse = "object")
        => LET d == res.file.data
               old == res.before
           IN /\ \A i \in 1..Len(d.metas) :
                    \E j \in i..Len(d.metas) :
                       /\ d.metas[j].id = d.metas[i].id
                       /\ metaStore[d.metas[i].id] = d.metas[j]
              /\ \A k \in DOMAIN d.files : fileStore[k] = d.files[k]
              /\ ~res.replace =>
                    /\ \A k \in DOMAIN old.metaStore \ backupIds(d) :
                          k \in DOMAIN metaStore /\ metaStore[k] = old.metaStore[k]
                    /\ \A k \in DOMAIN old.fileStore \ DOMAIN d.files :
                          k \in DOMAIN fileStore /\ fileStore[k] = old.fileStore[k]
                    /\ DOMAIN metaStore = DOMAIN old.metaStore \cup backupIds(d)
                    /\ DOMAIN fileStore = DOMAIN old.fileStore \cup DOMAIN d.files
              /\ res.replace =>
                    /\ DOMAIN metaStore = backupIds(d)
                    /\ DOMAIN fileStore = DOMAIN d.files

\* C17 case, merge: card 2 is not in the backup and is kept, card 1 is
\* replaced by the backup's record and card 9 is added.
C17_Witness ==
    /\ last.op = "restore" /\ res.file.data.hasMetas /\ ~res.replace
    /\ DOMAIN res.before.metaStore = {1, 2}
    /\ DOMAIN metaStore = {1, 2, 9}
    /\ metaStore[1] # res.before.metaStore[1]
    /\ metaStore[2] = res.before.metaStore[2]
    /\ DOMAIN fileStore = {1, 2, 9} /\ fileStore[2] = "file"

sortKey(mode, m) ==
    CASE mode = "name_asc" -> localeRank(m.name)
      [] mode = "name_desc" -> 0 - localeRank(m.name)
      [] mode = "created_new" -> 0 - m.createdAt
      [] mode = "created_old" -> m.createdAt
      [] mode = "updated_new" -> 0 - m.updatedAt
      [] mode = "pages_desc" -> 0 - m.pages
      [] mode = "pages_asc" -> m.pages
      [] OTHER -> 0

\* C20: for every sort mode other than none the flat view is a permutation
\* of the filtered list in which keys never decrease along the mode's order
\* and cards with equal keys stand in their input order (ids number the input
\* positions).
C20_SortOrderedAndStable ==
    (res.op = "sorted" /\ res.mode # "none")
        => /\ Len(res.out) = Len(res.filtered)
           /\ Range(res.out) = Range(res.filtered)
           /\ \A i, j \in 1..Len(res.out) :
                 i < j => \/ sortKey(res.mode, res.out[i])
                               < sortKey(res.mode, res.out[j])
                          \/ /\ sortKey(res.mode, res.out[i])
                                  = sortKey(res.mode, res.out[j])
                             /\ res.out[i].id < res.out[j].id

\* C20 case: pages_asc on three cards of which the first and the last have
\* equal page counts above the middle one's.
C20_Witness ==
    /\ res.op = "sorted" /\ res.mode = "pages_asc"
    /\ Len(res.filtered) = 3
    /\ res.filtered[1].pages = 1 /\ res.filtered[2].pages = 0
    /\ res.filtered[3].pages = 1
    /\ idsOf(res.out) = <<2, 1, 3>>

\* The batch handed to importFiles has been handled to its end.
batchDone == importing.batch # <<>> /\ importing.files = <<>>

\* The files of the batch that could not be read.
unreadable ==
    {i \in 1..Len(importing.batch) : importing.batch[i] = "read"}

\* C19 as stated: every file of a finished batch, readable or not, has
\* yielded a card, so the batch of N files ends with N new cards.
C19_BatchYieldsNCards ==
    batchDone
        => /\ Len(metas) = importing.start + Len(importing.batch)
           /\ \A i \in 1..Len(importing.done) : importing.done[i] # 0

\* C19: each file handled so far that could be read has its card and its
\* stored bytes, with the placeholder thumbnail exactly when the render
\* failed; a file that could not be read has no card and is reported; the
\* loop goes on while files are left, and a finished batch of N files of
\* which k could not be read ends with N - k new cards.
C19_ImportFailuresLocal ==
    /\ Len(importing.done) + Len(importing.files) = Len(importing.batch)
    /\ importing.files # <<>> => ENABLED ImportNext
    /\ \A i \in 1..Len(importing.done) :
          LET id == importing.done[i]
          IN IF importing.batch[i] = "read"
             THEN id = 0 /\ importing.lastError # ""
             ELSE /\ hasId(metas, id)
                  /\ id \in DOMAIN metaStore /\ id \in DOMAIN fileStore
                  /\ metaOf(metas, id).thumbnailDataUrl = "placeholder"
                         <=> importing.batch[i] = "render"
    /\ batchDone
          => /\ Len(metas) = importing.start + Len(importing.batch)
                                - Cardinality(unreadable)
             /\ importing.count = 0

\* C19 case: a finished batch of an unreadable file, a file whose render
\* fails and a good file.
C19_Witness ==
    /\ batchDone
    /\ importing.batch = <<"read", "render", "none">>
    /\ importing.done = <<0, 1, 2>>
    /\ importing.lastError # ""

\* C18: every card in memory and in the card store has a createdAt (0 stands
\* for an absent one) and createdAt <= updatedAt.
C18_TimestampInvariant ==
    /\ \A i \in 1..Len(metas) :
          metas[i].createdAt # 0 /\ metas[i].createdAt <= metas[i].updatedAt
    /\ \A k \in DOMAIN metaStore :
          /\ metaStore[k].createdAt # 0
          /\ metaStore[k].createdAt <= metaStore[k].updatedAt

\* C14: once deleteCustomCollection(n) has run to its end and no edit is in
\* flight, no card in memory or in the card store has collection n ignoring
\* case, and every card that held it when the deletion started is present
\* with the empty collection.
C14_DeleteClearsReferences ==
    (deleting.done /\ metaQueue = <<>>)
        => /\ \A i \in 1..Len(metas) : ~holds(metas[i], deleting.n)
           /\ \A k \in DOMAIN metaStore : ~holds(metaStore[k], deleting.n)
           /\ \A i \in 1..Len(deleting.snapshot) :
                 holds(deleting.snapshot[i], deleting.n)
                     => /\ hasId(metas, deleting.snapshot[i].id)
                        /\ metaOf(metas, deleting.snapshot[i].id).collection = ""

\* Position of the first occurrence of id in the persisted list of the call.
firstListed(id) ==
    CHOOSE i \in 1..Len(res.idsOrder) :
        /\ res.idsOrder[i] = id
        /\ \A j \in 1..(i - 1) : res.idsOrder[j] # id

\* createdAt of the member with the id (members are numbered in the order
\* they are passed in).
stampOf(id) == res.items[id].createdAt

\* C21: the output of orderItemsInGroup is the listed members in the order of
\* their first occurrence in the persisted list, followed by the members the
\* list does not mention in ascending createdAt order, equal stamps in the
\* order passed in; listed ids that are not members do not appear.
C21_ResolveOrdering ==
    res.op = "resolve"
        => LET members == Range(idsOf(res.items))
               listed == members \cap Range(res.idsOrder)
               n == Cardinality(listed)
           IN /\ Len(res.out) = Cardinality(members)
              /\ \A i \in 1..Len(res.out) :
                    /\ res.out[i] \in members
                    /\ i <= n <=> res.out[i] \in listed
              /\ \A i, j \in 1..Len(res.out) :
                    (i < j /\ j <= n)
                        => firstListed(res.out[i]) < firstListed(res.out[j])
              /\ \A i, j \in 1..Len(res.out) :
                    (n < i /\ i < j)
                        => \/ stampOf(res.out[i]) < stampOf(res.out[j])
                           \/ /\ stampOf(res.out[i]) = stampOf(res.out[j])
                              /\ res.out[i] < res.out[j]

\* C21 case: members 1, 2, 3 with stamps 2, 2, 1 and the persisted list
\* [4, 3, 3] (a foreign id, a repeat): the output is [3, 1, 2].
C21_Witness ==
    /\ res.op = "resolve"
    /\ Len(res.items) = 3
    /\ stampOf(1) = 2 /\ stampOf(2) = 2 /\ stampOf(3) = 1
    /\ res.idsOrder = <<4, 3, 3>>
    /\ res.out = <<3, 1, 2>>

\* C22: orderItemsInGroup given the ids of its own output as the persisted
\* list returns that output again, for every group, members and first list.
C22_ResolveRoundTrip ==
    res.op = "again" => res.out = res.first

\* C22 case: no persisted list, two members passed in against their createdAt
\* order; both calls give [2, 1].
C22_Witness ==
    /\ res.op = "again"
    /\ res.given = <<>>
    /\ Len(res.items) = 2
    /\ res.items[1].createdAt > res.items[2].createdAt
    /\ res.first = <<2, 1>> /\ res.out = <<2, 1>>

\* C23 as stated: moveWithinGroup(group, x, x, placeBefore) leaves the resolved
\* order of the group as it was.
C23_SelfMoveNoOp ==
    res.op = "selfMove" => res.out = res.before

\* C23: moveWithinGroup(group, x, x, placeBefore) persists the listed members
\* (all members when none is listed) without x and then x, so in the resolved
\* order x stands behind every other member that was listed.
C23_SelfMoveToEnd ==
    res.op = "selfMove"
        => LET members == Range(idsOf(res.items))
               member(id) == id \in members
               listed == SelectSeq(res.idsOrder, member)
               base == IF listed = <<>> THEN idsOf(res.items) ELSE listed
           IN /\ res.list = Append(without(base, res.id), res.id)
              /\ \A y \in Range(base) \ {res.id} :
                    indexOf(res.out, y) < indexOf(res.out, res.id)
              /\ IsPermOf(res.out, members)

\* C23 case: members 1, 2, 3 listed as [1, 2, 3]; Move(1, 1, before) gives
\* [2, 3, 1].
C23_Witness ==
    /\ res.op = "selfMove"
    /\ res.idsOrder = <<1, 2, 3>> /\ Len(res.items) = 3
    /\ res.id = 1 /\ res.placeBefore
    /\ res.before = <<1, 2, 3>>
    /\ res.out = <<2, 3, 1>>

\* C24: the list a Move persists for a group holds only ids of cards that are
\* members of the group at the time of the Move, and no id twice.
C24_MovePersistsMembersOnly ==
    Moved
        => LET list == listAt(orderMap, lastKey)
           IN /\ Range(list) \subseteq lastMembers
              /\ \A i, j \in 1..Len(list) : list[i] = list[j] => i = j

\* C24 case: the dragged card left the group (deleted or put in another
\* collection) while it was dragged, and the pointer-up persisted a list of
\* the cards that stayed.
C24_Witness ==
    /\ Moved /\ last.op = "pointerup"
    /\ last.id \notin lastMembers
    /\ listAt(orderMap, lastKey) # <<>>
    /\ listAt(orderMap, lastKey) # listAt(last.prev, lastKey)

\* C25: after a committed Move of d onto t, distinct current members of the
\* group, the group's resolved order under the new order map has d
\* immediately before t (placeBefore) or immediately after t, whatever the
\* list persisted before.
C25_MoveShowsWhereDropped ==
    (/\ Moved
     /\ last.id \in lastMembers /\ last.target \in lastMembers
     /\ last.id # last.target)
        => LET new == resolvedIds(orderMap, last.group)
               d == indexOf(new, last.id)
               t == indexOf(new, last.target)
           IN /\ d > 0 /\ t > 0
              /\ last.flag = "before" => t = d + 1
              /\ last.flag = "after" => d = t + 1

\* C26: no manual move under an algorithmic sort: a step changes the order map
\* only when it is taken while the sort mode is "none" and reorder mode is on;
\* a drag released after the sort mode was changed commits nothing.
C26_MoveOnlyInReorderMode ==
    [][orderMap' # orderMap => (sortMode = "none" /\ reorderMode)]_vars

\* The names of the groups the folder view shows.
shownGroups ==
    LET groups == groupedByCollection(Filtered)
    IN {groups[i].name : i \in 1..Len(groups)}

\* The order hints order map om holds for a group: the persisted ids of the
\* group's key that are members of the group.
hintsOf(om, group) ==
    LET isMember(id) == id \in Range(groupIdsOf(metas, group))
    IN SelectSeq(listAt(om, keyForCollection(group)), isMember)

\* C27: groups are ordered independently: a committed Move in one group leaves
\* the resolved order and the persisted order hints of every other group of
\* the folder view unchanged, also when the two names differ only in letter
\* case or one of them is a custom collection named "(none)".
C27_GroupsIndependent ==
    Moved => \A g \in shownGroups \ {last.group} :
                 /\ resolvedIds(orderMap, g) = resolvedIds(last.prev, g)
                 /\ hintsOf(orderMap, g) = hintsOf(last.prev, g)

\* C28: a deleted custom collection stays deleted: once deleteCustomCollection(n)
\* has run to completion and no edit is in flight, n is in neither the custom
\* collection list in memory nor the custom-collection store, however many
\* cards held n before the deletion.
C28_DeletedStaysDeleted ==
    (deleting.done /\ metaQueue = <<>>)
        => /\ ~inListCI(customCollections, deleting.n)
           /\ ~inListCI(customStore, deleting.n)

\* The set of card ids in a card list.
cardIds(ms) == {ms[i].id : i \in 1..Len(ms)}

\* C29: a metadata edit never creates a card: a step of an updateMeta call
\* leaves the set of card ids in memory and the set of keys of the card store
\* as they were, also when the card was deleted before the call completed,
\* and leaves no record without an id in either.
C29_EditNeverCreatesCard ==
    [][last'.op = "served"
          => /\ cardIds(metas') = cardIds(metas)
             /\ DOMAIN metaStore' = DOMAIN metaStore
             /\ 0 \notin cardIds(metas')
             /\ \A k \in DOMAIN metaStore' : metaStore'[k].id = k]_vars

\* C30: the start-up load does not race with moves: once the load and every
\* write have completed, the order map in memory equals the map in the order
\* store, and every group the store had an entry for at start-up still has
\* one in both.
C30_LoadDoesNotRace ==
    orderWrites = <<>>
        => /\ orderMap = orderStore
           /\ \A k \in DOMAIN storedAtStartup :
                 k \in DOMAIN orderMap /\ k \in DOMAIN orderStore

====
